---- MODULE Spec2Model ----
(***************************************************************************)
(* Model of the data preparation pipeline of the chronic-disease           *)
(* inequality dashboard: utils/prep.py (clean_data, make_tables, the       *)
(* create_*_table builders, calculate_inequality_ratio), utils/io.py       *)
(* (_age_to_bucket_label) and the places of the sections that compute the  *)
(* D1/D10 ratio for display.                                               *)
(*                                                                         *)
(* A table (pandas DataFrame) is a record [cols, rows]: cols is the set of *)
(* column names, rows the sequence of rows in table order, each row a      *)
(* record [idx, c] with idx the row's index label and c a function from    *)
(* cols to cells.  A cell is a record [k, s, n, d]: k = "na" is the        *)
(* missing marker (NaN / None), k = "str" a string s, k = "num" the        *)
(* rational n/d in lowest terms (a float64 whose rounding is not           *)
(* modelled), k = "inf" the result of a float division by zero.            *)
(***************************************************************************)
EXTENDS Integers, Sequences, FiniteSets, TLC

VARIABLES
    df_raw,      \* the table read from the CSV file
    df_clean,    \* clean_data(df_raw)
    df_clean2,   \* clean_data(df_clean)
    direct,      \* each create_*_table builder applied to df_clean
    filters,     \* the filters argument of the last make_tables call
    tables,      \* the result of the last make_tables call
    ratio_call,  \* the arguments of the last calculate_inequality_ratio call
    ratio,       \* its result
    kpi,         \* what the Overview KPI block displayed
    cmp,         \* what the Deep Dives side-by-side comparison produced
    sliders,     \* the sliders the last Deep Dives render created
    age_in,      \* the argument of the last _age_to_bucket_label call
    age_out,     \* its result
    top,         \* the last get_top_diseases call: its n, by and result
    data_file,   \* the CSV file on disk: absent, unparsable or a table
    loaded,      \* the outcome of the last load_eurostat_csv call
    cache,       \* the st.cache_data entry of load_and_prepare_data
    loads,       \* executions of load_and_prepare_data since the last clear
    builds,      \* executions of make_tables in the session
    widgets,     \* the values of the sidebar widgets
    view,        \* what the last run of main did
    runs,        \* the number of script runs of the session
    pc           \* the step of the run

\* The state of the Streamlit session.
session == <<data_file, loaded, cache, loads, builds, widgets, view, runs>>

vars == <<df_raw, df_clean, df_clean2, direct, filters, tables, ratio_call,
          ratio, kpi, cmp, sliders, age_in, age_out, top, session,
          pc>>

----------------------------------------------------------------------------
(* Strings and numbers *)

Chars(s) == [i \in 1..Len(s) |-> SubSeq(s, i, i)]

\* The characters of the model's strings, in code-point order.
Alphabet == " +-.0123456789<=>ABCDEFGHIJKLMNOPQRSTUVWXYZ_abcdefghijklmnopqrstuvwxyz"

CharCode(ch) == CHOOSE i \in 1..Len(Alphabet) : SubSeq(Alphabet, i, i) = ch

DigitChars == {"0", "1", "2", "3", "4", "5", "6", "7", "8", "9"}

DigitVal(ch) == CHOOSE i \in 0..9 : SubSeq("0123456789", i + 1, i + 1) = ch

DigitChar(i) == SubSeq("0123456789", i + 1, i + 1)

RECURSIVE DigitsVal(_)
DigitsVal(cs) ==
    IF cs = <<>> THEN 0
    ELSE 10 * DigitsVal(SubSeq(cs, 1, Len(cs) - 1)) + DigitVal(cs[Len(cs)])

RECURSIVE Pow10(_)
Pow10(k) == IF k = 0 THEN 1 ELSE 10 * Pow10(k - 1)

RECURSIVE IntToStr(_)
IntToStr(n) ==
    IF n < 10 THEN DigitChar(n) ELSE IntToStr(n \div 10) \o DigitChar(n % 10)

Abs(n) == IF n < 0 THEN -n ELSE n

RECURSIVE GCD(_, _)
GCD(a, b) == IF b = 0 THEN a ELSE GCD(b, a % b)

----------------------------------------------------------------------------
(* Cells *)

NA == [k |-> "na", s |-> "", n |-> 0, d |-> 1]

Str(s) == [k |-> "str", s |-> s, n |-> 0, d |-> 1]

\* The float n/d, d # 0, in lowest terms with a positive denominator.
Num(n, d) ==
    LET g == GCD(Abs(n), Abs(d))
        sg == IF d < 0 THEN -1 ELSE 1
    IN [k |-> "num", s |-> "", n |-> sg * (n \div g), d |-> sg * (d \div g)]

Inf(sign) == [k |-> "inf", s |-> "", n |-> sign, d |-> 1]

isna(cell) == cell.k = "na"

notna(cell) == cell.k # "na"

\* Float arithmetic (numpy float64; NaN propagates, x / 0.0 is inf or NaN).
FAdd(a, b) ==
    IF a.k = "num" /\ b.k = "num" THEN Num(a.n * b.d + b.n * a.d, a.d * b.d)
    ELSE NA

FDiv(a, b) ==
    IF a.k # "num" \/ b.k # "num" THEN NA
    ELSE IF b.n = 0 THEN (IF a.n = 0 THEN NA
                          ELSE Inf(IF a.n > 0 THEN 1 ELSE -1))
    ELSE Num(a.n * b.d, a.d * b.n)

\* x == v and x > v for a float x and an integer literal v (False on NaN).
FEqInt(x, v) == x.k = "num" /\ x.n = v * x.d

FGtInt(x, v) == (x.k = "num" /\ x.n > v * x.d) \/ (x.k = "inf" /\ x.n > 0)

FLess(a, b) == a.n * b.d < b.n * a.d

----------------------------------------------------------------------------
(* pd.to_numeric(..., errors='coerce') and astype(str), cell by cell *)

AllDigits(cs) == \A i \in 1..Len(cs) : cs[i] \in DigitChars

\* The value of an unsigned decimal literal "ddd", "ddd.ddd", "ddd.", ".ddd";
\* the missing marker when cs is no such literal.
ParseUnsigned(cs) ==
    LET dots == {i \in 1..Len(cs) : cs[i] = "."}
    IN IF dots = {} THEN
           (IF cs # <<>> /\ AllDigits(cs) THEN Num(DigitsVal(cs), 1) ELSE NA)
       ELSE LET p == CHOOSE i \in dots : \A j \in dots : i <= j
                ip == SubSeq(cs, 1, p - 1)
                fp == SubSeq(cs, p + 1, Len(cs))
            IN IF AllDigits(ip) /\ AllDigits(fp) /\ Len(ip) + Len(fp) > 0
               THEN Num(DigitsVal(ip) * Pow10(Len(fp)) + DigitsVal(fp),
                        Pow10(Len(fp)))
               ELSE NA

ParseNumber(s) ==
    LET cs == Chars(s)
    IN IF cs = <<>> THEN NA
       ELSE IF cs[1] = "-" THEN
            LET v == ParseUnsigned(Tail(cs))
            IN IF v.k = "num" THEN Num(-v.n, v.d) ELSE NA
       ELSE IF cs[1] = "+" THEN ParseUnsigned(Tail(cs))
       ELSE ParseUnsigned(cs)

\* to_numeric filling an unparseable value with 0 instead of the missing marker.
to_numeric_zero_fill(cell) ==
    IF cell.k = "str"
    THEN (IF ParseNumber(cell.s).k = "na" THEN Num(0, 1) ELSE ParseNumber(cell.s))
    ELSE cell

to_numeric(cell) ==
    IF cell.k = "str" THEN ParseNumber(cell.s) ELSE cell

\* repr of a float with at most one decimal digit ("12.0", "-0.5").
FloatRepr(x) ==
    LET t == (Abs(x.n) * 10) \div x.d
    IN (IF x.n < 0 THEN "-" ELSE "") \o IntToStr(t \div 10) \o "."
       \o DigitChar(t % 10)

\* astype(str) written with repr: a string gets quoted.
astype_repr(cell) ==
    IF cell.k = "str" THEN Str("'" \o cell.s \o "'")
    ELSE IF cell.k = "na" THEN Str("nan")
    ELSE Str(FloatRepr(cell))

\* astype(str) that leaves the missing marker in place.
astype_str_keep_missing(cell) ==
    IF cell.k = "str" \/ cell.k = "na" THEN cell
    ELSE Str(FloatRepr(cell))

astype_str(cell) ==
    IF cell.k = "str" THEN cell
    ELSE IF cell.k = "na" THEN Str("nan")
    ELSE Str(FloatRepr(cell))

----------------------------------------------------------------------------
(* Tables *)

EmptyDF == [cols |-> {}, rows |-> <<>>]

empty(df) == df.cols = {} \/ df.rows = <<>>

\* df[mask]: the rows that satisfy Keep, in table order, index labels kept.
FilterRows(df, Keep(_)) == [df EXCEPT !.rows = SelectSeq(@, Keep)]

\* df[col] = F(df[col]) for every column of colset that df has.
MapCols(df, colset, F(_)) ==
    [cols |-> df.cols,
     rows |-> [i \in DOMAIN df.rows |->
                 [idx |-> df.rows[i].idx,
                  c |-> [col \in df.cols |->
                           IF col \in colset THEN F(df.rows[i].c[col])
                           ELSE df.rows[i].c[col]]]]]

\* df[new] = F(df[old]): adds (or overwrites) column new.
AddCol(df, new, old, F(_)) ==
    [cols |-> df.cols \cup {new},
     rows |-> [i \in DOMAIN df.rows |->
                 [idx |-> df.rows[i].idx,
                  c |-> [col \in df.cols \cup {new} |->
                           IF col = new THEN F(df.rows[i].c[old])
                           ELSE df.rows[i].c[col]]]]]

\* df.rename(columns={old: new})
RenameCol(df, old, new) ==
    [cols |-> (df.cols \ {old}) \cup {new},
     rows |-> [i \in DOMAIN df.rows |->
                 [idx |-> df.rows[i].idx,
                  c |-> [col \in (df.cols \ {old}) \cup {new} |->
                           IF col = new THEN df.rows[i].c[old]
                           ELSE df.rows[i].c[col]]]]]

\* series == 'literal' and series != 'literal', element by element.
EqStr(cell, s) == cell.k = "str" /\ cell.s = s

NeStr(cell, s) == ~EqStr(cell, s)

----------------------------------------------------------------------------
(* utils/prep.py: clean_data *)

numeric_cols == {"poids1", "poidsTot", "txNonStand", "txStandDir",
                 "txStandIndir", "txStandDirModBB", "txStandDirModBH",
                 "txStandIndirModBB", "txStandIndirModBH"}

critical_cols == {"varTauxLib", "type"}

string_cols == {"varTauxLib", "type", "varGroupage", "valGroupage",
                "varPartition", "valPartition"}

\* dropna() without the subset: a row with any missing value is dropped.
dropna_any(df) ==
    LET Keep(r) == \A col \in df.cols : notna(r.c[col])
    IN FilterRows(df, Keep)

\* The loop over critical_cols: dropna(subset=[col]) for each column present.
dropna_critical(df) ==
    LET Keep(r) == \A col \in critical_cols \cap df.cols : notna(r.c[col])
    IN FilterRows(df, Keep)

clean_data(df) ==
    LET s1 == MapCols(df, numeric_cols, to_numeric)
        s2 == dropna_critical(s1)
        s3 == IF "annee" \in s2.cols THEN AddCol(s2, "year", "annee", to_numeric)
              ELSE s2
    IN MapCols(s3, string_cols, astype_str)

----------------------------------------------------------------------------
(* groupby(keys).agg(...).reset_index() and sort_values *)

StrLess(s, t) ==
    LET a == Chars(s)
        b == Chars(t)
    IN \E i \in 1..Len(b) :
          /\ i <= Len(a) + 1
          /\ \A j \in 1..(i - 1) : a[j] = b[j]
          /\ (i = Len(a) + 1 \/ CharCode(a[i]) < CharCode(b[i]))

CellLess(a, b) == IF a.k = "num" THEN FLess(a, b) ELSE StrLess(a.s, b.s)

KeyLess(x, y) ==
    \E i \in 1..Len(x) :
        /\ \A j \in 1..(i - 1) : x[j] = y[j]
        /\ CellLess(x[i], y[i])

RECURSIVE SortKeys(_)
SortKeys(S) ==
    IF S = {} THEN <<>>
    ELSE LET m == CHOOSE x \in S : \A y \in S \ {x} : KeyLess(x, y)
         IN <<m>> \o SortKeys(S \ {m})

KeyOf(r, keycols) == [i \in 1..Len(keycols) |-> r.c[keycols[i]]]

RECURSIVE FSum(_)
FSum(cells) == IF cells = <<>> THEN Num(0, 1)
               ELSE FAdd(Head(cells), FSum(Tail(cells)))

\* 'mean' and 'sum' of a group's column: missing values are skipped; the mean
\* of no value is missing, the sum of no value is 0.
agg_mean(cells) ==
    LET vals == SelectSeq(cells, notna)
    IN IF vals = <<>> THEN NA ELSE FDiv(FSum(vals), Num(Len(vals), 1))

agg_sum(cells) == FSum(SelectSeq(cells, notna))

\* The distinct elements of a sequence, in order of first appearance.
RECURSIVE FirstSeen(_)
FirstSeen(seq) ==
    IF seq = <<>> THEN <<>>
    ELSE LET front == FirstSeen(SubSeq(seq, 1, Len(seq) - 1))
             last == seq[Len(seq)]
         IN IF \E i \in 1..Len(front) : front[i] = last THEN front
            ELSE Append(front, last)

\* groupby(..., sort=False): the groups in order of first appearance.
groupby_agg_unsorted(df, keycols, agg) ==
    LET keyset == {keycols[i] : i \in 1..Len(keycols)}
        valid == SelectSeq(df.rows,
                     LAMBDA r : \A col \in keyset : notna(r.c[col]))
        keys == FirstSeen([i \in 1..Len(valid) |-> KeyOf(valid[i], keycols)])
        Members(key) == SelectSeq(valid, LAMBDA r : KeyOf(r, keycols) = key)
        Column(key, col) ==
            LET m == Members(key) IN [i \in 1..Len(m) |-> m[i].c[col]]
        KeyPos(col) == CHOOSE i \in 1..Len(keycols) : keycols[i] = col
    IN [cols |-> keyset \cup DOMAIN agg,
        rows |-> [i \in 1..Len(keys) |->
                    [idx |-> i - 1,
                     c |-> [col \in keyset \cup DOMAIN agg |->
                              IF col \in keyset THEN keys[i][KeyPos(col)]
                              ELSE IF agg[col] = "mean"
                                   THEN agg_mean(Column(keys[i], col))
                                   ELSE agg_sum(Column(keys[i], col))]]]]

\* One row per distinct key (rows with a missing key are left out), keys
\* ascending, index 0..n-1.  agg maps each aggregated column to "mean"/"sum".
groupby_agg(df, keycols, agg) ==
    LET keyset == {keycols[i] : i \in 1..Len(keycols)}
        valid == SelectSeq(df.rows,
                     LAMBDA r : \A col \in keyset : notna(r.c[col]))
        keys == SortKeys({KeyOf(valid[i], keycols) : i \in 1..Len(valid)})
        Members(key) == SelectSeq(valid, LAMBDA r : KeyOf(r, keycols) = key)
        Column(key, col) ==
            LET m == Members(key) IN [i \in 1..Len(m) |-> m[i].c[col]]
        KeyPos(col) == CHOOSE i \in 1..Len(keycols) : keycols[i] = col
    IN [cols |-> keyset \cup DOMAIN agg,
        rows |-> [i \in 1..Len(keys) |->
                    [idx |-> i - 1,
                     c |-> [col \in keyset \cup DOMAIN agg |->
                              IF col \in keyset THEN keys[i][KeyPos(col)]
                              ELSE IF agg[col] = "mean"
                                   THEN agg_mean(Column(keys[i], col))
                                   ELSE agg_sum(Column(keys[i], col))]]]]

\* Insert row r after the rows whose key is not greater (missing keys last).
RECURSIVE InsertByCol(_, _, _)
InsertByCol(sorted, r, col) ==
    IF sorted = <<>> THEN <<r>>
    ELSE LET h == Head(sorted)
         IN IF notna(r.c[col]) /\ (isna(h.c[col]) \/ CellLess(r.c[col], h.c[col]))
            THEN <<r>> \o sorted
            ELSE <<h>> \o InsertByCol(Tail(sorted), r, col)

RECURSIVE SortRowsByCol(_, _)
SortRowsByCol(rows, col) ==
    IF rows = <<>> THEN <<>>
    ELSE InsertByCol(SortRowsByCol(SubSeq(rows, 1, Len(rows) - 1), col),
                     rows[Len(rows)], col)

\* df.sort_values(col): ascending, index labels kept.
sort_values(df, col) == [df EXCEPT !.rows = SortRowsByCol(@, col)]

----------------------------------------------------------------------------
(* utils/prep.py: the table builders *)

\* The row selection without the test valGroupage != 'nan'.
select_groupage_keep_nan(df, groupvars) ==
    FilterRows(df, LAMBDA r :
        /\ \E v \in groupvars : EqStr(r.c["varGroupage"], v)
        /\ notna(r.c["valGroupage"]))

\* The row selection shared by the builders keyed on varGroupage:
\* (varGroupage in vars) & valGroupage.notna() & (valGroupage != 'nan').
select_groupage(df, groupvars) ==
    FilterRows(df, LAMBDA r :
        /\ \E v \in groupvars : EqStr(r.c["varGroupage"], v)
        /\ notna(r.c["valGroupage"])
        /\ NeStr(r.c["valGroupage"], "nan"))

\* agg_dict with the weight averaged instead of summed.
agg_dict_ci_mean_weight(df) ==
    [col \in {"txStandDir"}
             \cup ({"txStandDirModBB", "txStandDirModBH", "poids1"} \cap df.cols)
       |-> "mean"]

\* agg_dict of the income, region, education and occupation builders.
agg_dict_ci(df) ==
    [col \in {"txStandDir"}
             \cup ({"txStandDirModBB", "txStandDirModBH", "poids1"} \cap df.cols)
       |-> IF col = "poids1" THEN "sum" ELSE "mean"]

\* agg_dict of the demographics and time-series builders.
agg_dict_plain(df) ==
    [col \in {"txStandDir"} \cup ({"poids1"} \cap df.cols)
       |-> IF col = "poids1" THEN "sum" ELSE "mean"]

create_income_table(df) ==
    LET income_df == select_groupage(df, {"FISC_NIVVIEM_E2015_S_moy_10"})
    IN IF empty(income_df) THEN EmptyDF
       ELSE LET cast == AddCol(income_df, "income_decile", "valGroupage",
                               to_numeric)
                kept == FilterRows(cast, LAMBDA r : notna(r.c["income_decile"]))
                agg_df == groupby_agg(kept,
                              <<"income_decile", "varTauxLib", "type">>,
                              agg_dict_ci(kept))
            IN sort_values(agg_df, "income_decile")

create_region_table(df) ==
    LET region_df == select_groupage(df, {"FISC_REG_S"})
    IN IF empty(region_df) THEN EmptyDF
       ELSE RenameCol(groupby_agg(region_df,
                          <<"valGroupage", "varTauxLib", "type">>,
                          agg_dict_ci(region_df)),
                      "valGroupage", "region_code")

create_education_table(df) ==
    LET edu_df == select_groupage(df, {"EAR_DIPLR_S"})
    IN IF empty(edu_df) THEN EmptyDF
       ELSE RenameCol(groupby_agg(edu_df,
                          <<"valGroupage", "varTauxLib", "type">>,
                          agg_dict_ci(edu_df)),
                      "valGroupage", "education_level")

create_csp_table(df) ==
    LET csp_df == select_groupage(df, {"EAR_GS_S"})
    IN IF empty(csp_df) THEN EmptyDF
       ELSE RenameCol(groupby_agg(csp_df,
                          <<"valGroupage", "varTauxLib", "type">>,
                          agg_dict_ci(csp_df)),
                      "valGroupage", "csp_group")

create_demographics_table(df) ==
    LET demo_df == select_groupage(df, {"classeAge10", "SEXE"})
    IN IF empty(demo_df) THEN EmptyDF
       ELSE groupby_agg(demo_df,
                <<"varGroupage", "valGroupage", "varTauxLib", "type">>,
                agg_dict_plain(demo_df))

create_timeseries_table(df) ==
    IF "year" \notin df.cols THEN EmptyDF
    ELSE LET ts_df == FilterRows(df, LAMBDA r : notna(r.c["year"]))
         IN IF empty(ts_df) THEN EmptyDF
            ELSE sort_values(groupby_agg(ts_df,
                                 <<"year", "varTauxLib", "type">>,
                                 agg_dict_plain(ts_df)),
                             "year")

\* A filters argument: none is filters=None; otherwise a dict with the keys
\* in keys (the value of an absent key is not read).  get(k) is truthy when
\* the key is there with a non-empty value.
NoFilters == [none |-> TRUE, keys |-> {}, regions |-> {}, disease |-> "",
              type |-> ""]

truthy(f) == ~f.none /\ f.keys # {}

get_regions(f) == "regions" \in f.keys /\ f.regions # {}

get_disease(f) == "disease" \in f.keys /\ f.disease # ""

get_type(f) == "type" \in f.keys /\ f.type # ""

\* The filtering of make_tables; raises KeyError when the region filter reads
\* a partition column the table does not have.
apply_filters(df, f) ==
    IF ~truthy(f) THEN [raised |-> "", df |-> df]
    ELSE IF get_regions(f) /\ ~({"varPartition", "valPartition"} \subseteq df.cols)
    THEN [raised |-> "KeyError", df |-> EmptyDF]
    ELSE LET f1 == IF get_regions(f)
                   THEN FilterRows(df, LAMBDA r :
                            /\ EqStr(r.c["varPartition"], "FISC_REG_S")
                            /\ \E g \in f.regions : EqStr(r.c["valPartition"], g))
                   ELSE df
             f2 == IF get_disease(f)
                   THEN FilterRows(f1, LAMBDA r : EqStr(r.c["varTauxLib"], f.disease))
                   ELSE f1
             f3 == IF get_type(f)
                   THEN FilterRows(f2, LAMBDA r : EqStr(r.c["type"], f.type))
                   ELSE f2
         IN [raised |-> "", df |-> f3]

\* The result of make_tables: raised names the exception that ended the call
\* ("" when it returned), t is the returned dict.
make_tables(df, f) ==
    LET fl == apply_filters(df, f)
        df_filtered == fl.df
    IN IF fl.raised # "" THEN [raised |-> fl.raised, t |-> <<>>]
       ELSE [raised |-> "",
             t |-> [name \in {"by_income", "by_region", "by_education",
                              "by_csp", "by_demographics", "timeseries"} |->
                    CASE name = "by_income" -> create_income_table(df_filtered)
                      [] name = "by_region" -> create_region_table(df_filtered)
                      [] name = "by_education" -> create_education_table(df_filtered)
                      [] name = "by_csp" -> create_csp_table(df_filtered)
                      [] name = "by_demographics" -> create_demographics_table(df_filtered)
                      [] OTHER -> IF "year" \in df_filtered.cols
                                  THEN create_timeseries_table(df_filtered)
                                  ELSE EmptyDF]]

----------------------------------------------------------------------------
(* utils/prep.py: calculate_inequality_ratio *)

\* filtered[filtered[col] == v]['txStandDir'].values
rates_of_decile(filtered, v) ==
    LET sel == SelectSeq(filtered.rows, LAMBDA r : FEqInt(r.c["income_decile"], v))
    IN [i \in 1..Len(sel) |-> sel[i].c["txStandDir"]]

\* d10[0] != 0 on floats: True for NaN.
FNeZero(x) == ~FEqInt(x, 0)

\* calculate_inequality_ratio without the test d10[0] != 0.
ratio_without_zero_test(df, disease, type_) ==
    IF empty(df) THEN NA
    ELSE LET filtered == FilterRows(df, LAMBDA r :
                            /\ EqStr(r.c["varTauxLib"], disease)
                            /\ EqStr(r.c["type"], type_))
         IN IF empty(filtered) \/ "income_decile" \notin filtered.cols THEN NA
            ELSE LET d1 == rates_of_decile(filtered, 1)
                     d10 == rates_of_decile(filtered, 10)
                 IN IF Len(d1) > 0 /\ Len(d10) > 0
                    THEN FDiv(d1[1], d10[1])
                    ELSE NA

calculate_inequality_ratio(df, disease, type_) ==
    IF empty(df) THEN NA
    ELSE LET filtered == FilterRows(df, LAMBDA r :
                            /\ EqStr(r.c["varTauxLib"], disease)
                            /\ EqStr(r.c["type"], type_))
         IN IF empty(filtered) \/ "income_decile" \notin filtered.cols THEN NA
            ELSE LET d1 == rates_of_decile(filtered, 1)
                     d10 == rates_of_decile(filtered, 10)
                 IN IF Len(d1) > 0 /\ Len(d10) > 0 /\ FNeZero(d10[1])
                    THEN FDiv(d1[1], d10[1])
                    ELSE NA

----------------------------------------------------------------------------
(* utils/prep.py: get_top_diseases *)

\* Insert row r after the rows whose key is not smaller (missing keys last).
RECURSIVE InsertByColDesc(_, _, _)
InsertByColDesc(sorted, r, col) ==
    IF sorted = <<>> THEN <<r>>
    ELSE LET h == Head(sorted)
         IN IF notna(r.c[col]) /\ (isna(h.c[col]) \/ CellLess(h.c[col], r.c[col]))
            THEN <<r>> \o sorted
            ELSE <<h>> \o InsertByColDesc(Tail(sorted), r, col)

RECURSIVE SortRowsByColDesc(_, _)
SortRowsByColDesc(rows, col) ==
    IF rows = <<>> THEN <<>>
    ELSE InsertByColDesc(SortRowsByColDesc(SubSeq(rows, 1, Len(rows) - 1), col),
                         rows[Len(rows)], col)

\* df.sort_values(col, ascending=False): descending, missing values last,
\* rows with equal values in their order in df, index labels kept.
sort_values_desc(df, col) == [df EXCEPT !.rows = SortRowsByColDesc(@, col)]

\* df.head(n) for n >= 0.
head(df, n) ==
    [df EXCEPT !.rows = SubSeq(@, 1, IF n < Len(@) THEN n ELSE Len(@))]

\* df[col].tolist() for a column of strings.
tolist(df, col) == [i \in 1..Len(df.rows) |-> df.rows[i].c[col].s]

\* The rate-type selection and the per-disease mean of get_top_diseases.
disease_rates_of(df, by) ==
    groupby_agg(FilterRows(df, LAMBDA r : EqStr(r.c["type"], by)),
                <<"varTauxLib">>, [col \in {"txStandDir"} |-> "mean"])

\* get_top_diseases sorting in ascending order.
top_diseases_ascending(df, n, by) ==
    IF empty(df) THEN <<>>
    ELSE IF empty(FilterRows(df, LAMBDA r : EqStr(r.c["type"], by))) THEN <<>>
    ELSE tolist(head(sort_values(disease_rates_of(df, by), "txStandDir"), n),
                "varTauxLib")

\* get_top_diseases grouping with sort=False.
top_diseases_first_seen(df, n, by) ==
    IF empty(df) THEN <<>>
    ELSE IF empty(FilterRows(df, LAMBDA r : EqStr(r.c["type"], by))) THEN <<>>
    ELSE tolist(head(sort_values_desc(
                        groupby_agg_unsorted(
                            FilterRows(df, LAMBDA r : EqStr(r.c["type"], by)),
                            <<"varTauxLib">>,
                            [col \in {"txStandDir"} |-> "mean"]),
                        "txStandDir"), n),
                "varTauxLib")

get_top_diseases(df, n, by) ==
    IF empty(df) THEN <<>>
    ELSE IF empty(FilterRows(df, LAMBDA r : EqStr(r.c["type"], by))) THEN <<>>
    ELSE tolist(head(sort_values_desc(disease_rates_of(df, by), "txStandDir"),
                     n),
                "varTauxLib")

----------------------------------------------------------------------------
(* sections/overview.py: the KPI block of render *)

\* d10_rate > 0 on floats: False for NaN.
FGtZero(x) == FGtInt(x, 0)

\* shown: "metrics" (the four KPI metrics, with the ratio displayed),
\* "insufficient", "no_decile" (the two warnings) or "no_data" (the error).
overview_kpi(tbls, selected_disease, rate_type) ==
    LET by_income == tbls["by_income"]
        Shown(what, r, a, b) == [shown |-> what, ratio |-> r, d1_rate |-> a,
                                 d10_rate |-> b]
    IN IF empty(by_income) THEN Shown("no_data", NA, NA, NA)
       ELSE LET income_data == FilterRows(by_income, LAMBDA r :
                                   /\ EqStr(r.c["varTauxLib"], selected_disease)
                                   /\ EqStr(r.c["type"], rate_type))
            IN IF empty(income_data) \/ "income_decile" \notin income_data.cols
               THEN Shown("no_decile", NA, NA, NA)
               ELSE LET d1 == rates_of_decile(income_data, 1)
                        d10 == rates_of_decile(income_data, 10)
                    IN IF Len(d1) = 0 \/ Len(d10) = 0
                       THEN Shown("insufficient", NA, NA, NA)
                       ELSE Shown("metrics",
                                  IF FGtZero(d10[1]) THEN FDiv(d1[1], d10[1])
                                  ELSE Num(0, 1),
                                  d1[1], d10[1])

----------------------------------------------------------------------------
(* sections/deep_dives.py: the side-by-side comparison table of render *)

\* The rows appended to comparison_data for the diseases of the sequence
\* comparison_diseases; raised is "KeyError" when a rate column is read that
\* the income table does not have.
RECURSIVE comparison_rows(_, _, _)
comparison_rows(by_income, comparison_diseases, rate_type) ==
    IF comparison_diseases = <<>> THEN [raised |-> "", rows |-> <<>>]
    ELSE LET disease == Head(comparison_diseases)
             disease_data == FilterRows(by_income, LAMBDA r :
                                 /\ EqStr(r.c["varTauxLib"], disease)
                                 /\ EqStr(r.c["type"], rate_type))
             rest == comparison_rows(by_income, Tail(comparison_diseases),
                                     rate_type)
         IN IF empty(disease_data) \/ "income_decile" \notin disease_data.cols
            THEN rest
            ELSE IF "txstanddir" \notin disease_data.cols
            THEN [raised |-> "KeyError", rows |-> <<>>]
            ELSE LET Rates(v) ==
                         LET sel == SelectSeq(disease_data.rows, LAMBDA r :
                                        FEqInt(r.c["income_decile"], v))
                         IN [i \in 1..Len(sel) |-> sel[i].c["txstanddir"]]
                     d1 == Rates(1)
                     d10 == Rates(10)
                 IN IF rest.raised # "" THEN rest
                    ELSE IF Len(d1) > 0 /\ Len(d10) > 0
                    THEN [raised |-> "",
                          rows |-> <<[disease |-> disease,
                                      ratio |-> IF FGtZero(d10[1])
                                                THEN FDiv(d1[1], d10[1])
                                                ELSE Num(0, 1)]>> \o rest.rows]
                    ELSE rest

\* shown: "table" (comparison_df displayed), "warning" (no comparison data),
\* "nothing" (no disease selected or no income table).
comparison_table(tbls, comparison_diseases, rate_type) ==
    IF comparison_diseases = <<>> \/ empty(tbls["by_income"])
    THEN [raised |-> "", shown |-> "nothing", rows |-> <<>>]
    ELSE LET res == comparison_rows(tbls["by_income"], comparison_diseases,
                                    rate_type)
         IN IF res.raised # ""
            THEN [raised |-> res.raised, shown |-> "nothing", rows |-> <<>>]
            ELSE [raised |-> "",
                  shown |-> IF res.rows # <<>> THEN "table" ELSE "warning",
                  rows |-> res.rows]

----------------------------------------------------------------------------
(* sections/deep_dives.py: the sliders of render *)

\* st.slider(label, min_value, max_value, value): Streamlit raises
\* StreamlitAPIException unless min_value <= value <= max_value.
st_slider(label, min_value, max_value, value) ==
    [label |-> label, min_value |-> min_value, max_value |-> max_value,
     value |-> value,
     raised |-> IF min_value <= value /\ value <= max_value THEN ""
                ELSE "StreamlitAPIException"]

\* min(a, b)
min(a, b) == IF b < a THEN b ELSE a

\* table_map.get(comparison_mode, ('by_income', 'income_decile'))[0]
table_map(comparison_mode) ==
    CASE comparison_mode = "Region" -> "by_region"
      [] comparison_mode = "Education" -> "by_education"
      [] comparison_mode = "Socio-Professional Group" -> "by_csp"
      [] OTHER -> "by_income"

\* Tab 1: the slider is created when the table of the mode is not empty.
top_n_slider(table) ==
    IF empty(table) THEN <<>>
    ELSE <<st_slider("Show top N groups", 5, min(20, Len(table.rows)), 10)>>

\* Tab 2: the slider is created on every render.
n_diseases_slider == <<st_slider("Number of diseases", 5, 15, 10)>>

\* df['varTauxLib'].unique() as a set.
all_diseases(df) == {df.rows[i].c["varTauxLib"].s : i \in 1..Len(df.rows)}

\* Tab 3: the diseases of df_clean whose ratio is defined and positive.
ratios_list(by_income, df, rate_type) ==
    {disease \in all_diseases(df) :
        FGtZero(calculate_inequality_ratio(by_income, disease, rate_type))}

\* Tab 3: the slider is created when ratios_list is not empty.
show_top_slider(len_ratios_df) ==
    IF len_ratios_df = 0 THEN <<>>
    ELSE <<st_slider("Show top N", 5, min(15, len_ratios_df), 10)>>

ranking_slider(by_income, df, rate_type) ==
    IF empty(by_income) THEN <<>>
    ELSE show_top_slider(Cardinality(ratios_list(by_income, df, rate_type)))

\* The sliders after tab 1: an exception raised by a slider ends the render.
sliders_after(created, by_income, df, rate_type) ==
    IF created # <<>> /\ created[1].raised # "" THEN created
    ELSE created \o n_diseases_slider
                 \o ranking_slider(by_income, df, rate_type)

\* The sliders of one render of the section, in the order of their creation.
deep_dives_sliders(tbls, df, comparison_mode, rate_type) ==
    sliders_after(top_n_slider(tbls[table_map(comparison_mode)]),
                  tbls["by_income"], df, rate_type)

----------------------------------------------------------------------------
(* utils/io.py: _age_to_bucket_label *)

\* Two characters of the source are outside the character set of the module's
\* strings and are written with a stand-in: "}" is U+2265 (greater-than or
\* equal to), "~" is U+2013 (en dash).
GEQ == "}"

ENDASH == "~"

Lower == "abcdefghijklmnopqrstuvwxyz"

Upper == "ABCDEFGHIJKLMNOPQRSTUVWXYZ"

upper_char(ch) ==
    IF \E i \in 1..26 : SubSeq(Lower, i, i) = ch
    THEN LET i == CHOOSE j \in 1..26 : SubSeq(Lower, j, j) = ch
         IN SubSeq(Upper, i, i)
    ELSE ch

upper(cs) == [i \in 1..Len(cs) |-> upper_char(cs[i])]

IsSpace(ch) == ch = " "

\* str.strip()
strip(cs) ==
    LET keep == {i \in 1..Len(cs) : ~IsSpace(cs[i])}
    IN IF keep = {} THEN <<>>
       ELSE SubSeq(cs, CHOOSE i \in keep : \A j \in keep : i <= j,
                       CHOOSE i \in keep : \A j \in keep : i >= j)

IsDigitAt(cs, i) == i >= 1 /\ i <= Len(cs) /\ cs[i] \in DigitChars

\* The position after the run of whitespace that starts at i (\s*).
RECURSIVE SkipSpaces(_, _)
SkipSpaces(cs, i) ==
    IF i <= Len(cs) /\ IsSpace(cs[i]) THEN SkipSpaces(cs, i + 1) ELSE i

\* The one or two digits at i, taken greedily (\d{1,2} with nothing after).
Digits12(cs, i) ==
    IF IsDigitAt(cs, i + 1) THEN DigitsVal(SubSeq(cs, i, i + 1))
    ELSE DigitVal(cs[i])

\* re.match(r"Y?(\d{1,2})\s*[-–]\s*(\d{1,2})", s): the lengths k of group 1
\* for which the rest of the pattern matches; the engine takes the longest.
RangeLens(cs, st) ==
    {k \in {1, 2} :
        /\ \A i \in st..(st + k - 1) : IsDigitAt(cs, i)
        /\ LET p == SkipSpaces(cs, st + k)
           IN /\ p <= Len(cs)
              /\ cs[p] \in {"-", ENDASH}
              /\ IsDigitAt(cs, SkipSpaces(cs, p + 1))}

match_range(cs) ==
    LET st == IF cs # <<>> /\ cs[1] = "Y" THEN 2 ELSE 1
        ks == RangeLens(cs, st)
    IN IF ks = {} THEN [m |-> FALSE, lo |-> 0, hi |-> 0]
       ELSE LET k == CHOOSE x \in ks : \A y \in ks : x >= y
                q == SkipSpaces(cs, SkipSpaces(cs, st + k) + 1)
            IN [m |-> TRUE, lo |-> DigitsVal(SubSeq(cs, st, st + k - 1)),
                hi |-> Digits12(cs, q)]

\* re.match(r"Y?_?GE(\d{1,2})", s)
match_ge(cs) ==
    LET a == IF cs # <<>> /\ cs[1] = "Y" THEN 2 ELSE 1
        b == IF a <= Len(cs) /\ cs[a] = "_" THEN a + 1 ELSE a
    IN IF b + 1 <= Len(cs) /\ cs[b] = "G" /\ cs[b + 1] = "E"
          /\ IsDigitAt(cs, b + 2)
       THEN [m |-> TRUE, lo |-> Digits12(cs, b + 2)]
       ELSE [m |-> FALSE, lo |-> 0]

\* re.findall(r"\d{2}", s): the first run of exactly two digits, if any.
first_number_two_digits(cs) ==
    LET ds == {i \in 1..Len(cs) : cs[i] \in DigitChars
                                  /\ i + 1 <= Len(cs) /\ cs[i + 1] \in DigitChars}
    IN IF ds = {} THEN [m |-> FALSE, lo |-> 0]
       ELSE [m |-> TRUE,
             lo |-> Digits12(cs, CHOOSE i \in ds : \A j \in ds : i <= j)]

\* re.findall(r"\d{1,2}", s): the first match, if any.
first_number(cs) ==
    LET ds == {i \in 1..Len(cs) : cs[i] \in DigitChars}
    IN IF ds = {} THEN [m |-> FALSE, lo |-> 0]
       ELSE [m |-> TRUE,
             lo |-> Digits12(cs, CHOOSE i \in ds : \A j \in ds : i <= j)]

\* The chain of "if lo < ..." tests shared by the three numeric rules.
bucket_by_lo(lo) ==
    IF lo < 18 THEN "<18"
    ELSE IF lo < 25 THEN "18-24"
    ELSE IF lo < 35 THEN "25-34"
    ELSE IF lo < 45 THEN "35-44"
    ELSE IF lo < 55 THEN "45-54"
    ELSE IF lo < 65 THEN "55-64"
    ELSE IF lo < 75 THEN "65-74"
    ELSE GEQ \o "75"

\* _age_to_bucket_label with the embedded-number rule tried before the
\* known tokens.
age_label_number_first(age_code_or_label) ==
    LET s == upper(strip(Chars(age_code_or_label)))
        Is(tokens) == \E t \in tokens : s = Chars(t)
        rg == match_range(s)
        ge == match_ge(s)
        nb == first_number(s)
    IN IF nb.m THEN bucket_by_lo(nb.lo)
       ELSE IF Is({"TOTAL", "T"}) THEN "Total"
       ELSE IF Is({"Y_LT18", "LT18", "<18"}) THEN "<18"
       ELSE IF Is({"Y_GE75", "GE75", ">=75", GEQ \o "75"}) THEN GEQ \o "75"
       ELSE IF rg.m THEN
            (IF rg.hi < 18 THEN "<18"
             ELSE IF rg.lo >= 75 THEN GEQ \o "75"
             ELSE bucket_by_lo(rg.lo))
       ELSE IF ge.m THEN
            (IF ge.lo >= 75 THEN GEQ \o "75" ELSE bucket_by_lo(ge.lo))
       ELSE "Total"

\* _age_to_bucket_label returning the code itself when no rule matches.
age_label_passthrough(age_code_or_label) ==
    LET s == upper(strip(Chars(age_code_or_label)))
        Is(tokens) == \E t \in tokens : s = Chars(t)
        rg == match_range(s)
        ge == match_ge(s)
        nb == first_number(s)
    IN IF Is({"TOTAL", "T"}) THEN "Total"
       ELSE IF Is({"Y_LT18", "LT18", "<18"}) THEN "<18"
       ELSE IF Is({"Y_GE75", "GE75", ">=75", GEQ \o "75"}) THEN GEQ \o "75"
       ELSE IF rg.m THEN
            (IF rg.hi < 18 THEN "<18"
             ELSE IF rg.lo >= 75 THEN GEQ \o "75"
             ELSE bucket_by_lo(rg.lo))
       ELSE IF ge.m THEN
            (IF ge.lo >= 75 THEN GEQ \o "75" ELSE bucket_by_lo(ge.lo))
       ELSE IF nb.m THEN bucket_by_lo(nb.lo)
       ELSE age_code_or_label

age_to_bucket_label(age_code_or_label) ==
    LET s == upper(strip(Chars(age_code_or_label)))
        Is(tokens) == \E t \in tokens : s = Chars(t)
        rg == match_range(s)
        ge == match_ge(s)
        nb == first_number(s)
    IN IF Is({"TOTAL", "T"}) THEN "Total"
       ELSE IF Is({"Y_LT18", "LT18", "<18"}) THEN "<18"
       ELSE IF Is({"Y_GE75", "GE75", ">=75", GEQ \o "75"}) THEN GEQ \o "75"
       ELSE IF rg.m THEN
            (IF rg.hi < 18 THEN "<18"
             ELSE IF rg.lo >= 75 THEN GEQ \o "75"
             ELSE bucket_by_lo(rg.lo))
       ELSE IF ge.m THEN
            (IF ge.lo >= 75 THEN GEQ \o "75" ELSE bucket_by_lo(ge.lo))
       ELSE IF nb.m THEN bucket_by_lo(nb.lo)
       ELSE "Total"

----------------------------------------------------------------------------
(* Inputs *)

\* The columns every loaded table has (required_cols of
\* get_data_quality_report) and those a table may lack.
required_cols == {"varTauxLib", "type", "varGroupage", "valGroupage",
                  "txStandDir"}

optional_cols == {"txStandDirModBB", "txStandDirModBH", "poids1", "annee",
                  "varPartition", "valPartition"}

Schemas == {required_cols \cup optional_cols,
            required_cols,
            required_cols \cup {"txStandDirModBB", "annee"}}

MaxRows == 2

RawRow(gvar, gval, lib, ty, rate, bb, bh, poids, annee, vpart, valpart) ==
    [col \in required_cols \cup optional_cols |->
        CASE col = "varGroupage" -> gvar
          [] col = "valGroupage" -> gval
          [] col = "varTauxLib" -> lib
          [] col = "type" -> ty
          [] col = "txStandDir" -> rate
          [] col = "txStandDirModBB" -> bb
          [] col = "txStandDirModBH" -> bh
          [] col = "poids1" -> poids
          [] col = "annee" -> annee
          [] col = "varPartition" -> vpart
          [] OTHER -> valpart]

\* The table with the given rows, restricted to the columns of schema, with
\* the default index 0..n-1.
MkTable(rowseq, schema) ==
    [cols |-> schema,
     rows |-> [i \in 1..Len(rowseq) |->
                 [idx |-> i - 1, c |-> [col \in schema |-> rowseq[i][col]]]]]

TablesOf(pool, n) ==
    {MkTable(rs, sch) : rs \in UNION {[1..k -> pool] : k \in 1..n},
                        sch \in Schemas}

INC == "FISC_NIVVIEM_E2015_S_moy_10"

\* Rows of well-formed and malformed grouping data, as read from the file
\* (strings, or the missing marker for an empty field).
PipelinePool ==
    {RawRow(Str(INC), Str("1"), Str("Diabetes"), Str("prevalence"),
            Str("12.0"), Str("11.0"), Str("13.0"), Str("100"), Str("2020"),
            Str("FISC_REG_S"), Str("11")),
     RawRow(Str(INC), Str("10"), Str("Diabetes"), Str("prevalence"),
            Str("4.0"), Str("3.0"), Str("5.0"), Str("200"), Str("2020"),
            Str("FISC_REG_S"), Str("11")),
     RawRow(Str(INC), Str("10"), Str("Diabetes"), Str("prevalence"),
            Str("0"), Str("0"), Str("1.0"), Str("50"), Str("2021"),
            Str("FISC_REG_S"), Str("24")),
     RawRow(Str(INC), Str("1"), Str("Diabetes"), Str("prevalence"),
            Str("6.0"), Str("5.0"), NA, NA, Str("2021"),
            Str("FISC_REG_S"), Str("24")),
     RawRow(Str(INC), Str("abc"), Str("Diabetes"), Str("prevalence"),
            Str("5.0"), Str("4.0"), Str("6.0"), Str("10"), NA,
            Str("FISC_REG_S"), Str("11")),
     RawRow(Str("FISC_REG_S"), NA, Str("Asthma"), Str("prevalence"),
            Str("7.0"), Str("6.0"), Str("8.0"), Str("10"), Str("2020"),
            NA, NA),
     RawRow(Str(INC), Str("10"), Str("Diabetes"), Str("prevalence"),
            Str("x"), NA, NA, Str("30"), Str("2020"),
            Str("FISC_REG_S"), Str("11")),
     RawRow(Str(INC), Str("1"), Str("Asthma"), NA,
            Str("9.0"), Str("8.0"), Str("10.0"), Str("10"), Str("2020"),
            Str("FISC_REG_S"), Str("11")),
     RawRow(Str("FISC_REG_S"), Str("11"), Str("Diabetes"), Str("prevalence"),
            Str("5.0"), Str("4.0"), Str("6.0"), Str("40"), Str("2020"),
            Str("FISC_REG_S"), Str("11")),
     RawRow(Str("EAR_DIPLR_S"), Str("BAC"), Str("Asthma"), Str("incidence"),
            Str("2.0"), Str("1.0"), Str("3.0"), Str("20"), Str("2021"),
            Str("EAR_DIPLR_S"), Str("BAC")),
     RawRow(Str("EAR_GS_S"), Str("CS1"), Str("Diabetes"), Str("prevalence"),
            Str("x"), Str("1.0"), Str("3.0"), Str("20"), Str("2020"),
            Str("FISC_REG_S"), Str("24")),
     RawRow(Str("classeAge10"), Str("60"), Str("Diabetes"), Str("prevalence"),
            Str("8.0"), Str("7.0"), Str("9.0"), Str("60"), Str("2020"),
            Str("FISC_REG_S"), Str("11")),
     RawRow(Str("SEXE"), Str("F"), Str("Asthma"), Str("prevalence"),
            Str("8.0"), Str("7.0"), Str("9.0"), Str("70"), NA,
            Str("FISC_REG_S"), Str("11"))}

\* Rows that exercise the cleaning: missing and empty identifying fields,
\* unparseable numbers, cells that are already numbers.
CleanPool ==
    {RawRow(Str(INC), Str("1"), Str("Diabetes"), Str("prevalence"),
            Str("12.0"), Str("11.0"), Str("13.0"), Str("100"), Str("2020"),
            Str("FISC_REG_S"), Str("11")),
     RawRow(Str(INC), Str("10"), NA, Str("prevalence"),
            Str("abc"), Str("3.0"), Str("5.0"), Str("200"), Str("2020"),
            Str("FISC_REG_S"), Str("11")),
     RawRow(Str(INC), Str("10"), Str("Diabetes"), NA,
            Str("4.0"), Str("3.0"), Str("5.0"), Str("200"), Str("2020"),
            Str("FISC_REG_S"), Str("11")),
     RawRow(Str(INC), Str("2"), Str("Diabetes"), Str("prevalence"),
            Str("abc"), Str("1.2.3"), Str(""), NA, Str("x"),
            Str("FISC_REG_S"), Str("11")),
     RawRow(Str(INC), Num(10, 1), Str("Asthma"), Str("incidence"),
            Num(4, 1), Num(7, 2), NA, Num(0, 1), Num(2021, 1),
            Str("FISC_REG_S"), Num(11, 1)),
     RawRow(Str("SEXE"), Str("F"), Str(""), Str("prevalence"),
            Str("0"), Str("-0.5"), Str("+1.5"), Str("7"), NA,
            NA, NA),
     RawRow(NA, NA, Str("nan"), Str("incidence"),
            NA, NA, NA, Str("."), Str("2020"),
            Str("FISC_REG_S"), Str("nan")),
     RawRow(Str("FISC_REG_S"), Str("nan"), Str("Asthma"), Str(""),
            Str("5."), Str(".5"), Str("1e"), Str("-"), Str("20.5"),
            Str(""), Str("24"))}

Diseases == {"Diabetes", "Asthma"}

RateTypes == {"prevalence", "incidence"}

\* app.py: the options of the 'Deep Dive Mode' select box.
ComparisonModes == {"Income Decile", "Region", "Education",
                    "Socio-Professional Group"}

FilterSettings ==
    {NoFilters,
     [none |-> FALSE, keys |-> {}, regions |-> {}, disease |-> "", type |-> ""],
     [none |-> FALSE, keys |-> {"regions"}, regions |-> {}, disease |-> "",
      type |-> ""],
     [none |-> FALSE, keys |-> {"regions"}, regions |-> {"11"}, disease |-> "",
      type |-> ""],
     [none |-> FALSE, keys |-> {"disease"}, regions |-> {},
      disease |-> "Diabetes", type |-> ""],
     [none |-> FALSE, keys |-> {"type"}, regions |-> {}, disease |-> "",
      type |-> "prevalence"],
     [none |-> FALSE, keys |-> {"regions", "disease", "type"},
      regions |-> {"11", "24"}, disease |-> "Diabetes", type |-> "prevalence"]}

TableNames == {"by_income", "by_region", "by_education", "by_csp",
               "by_demographics", "timeseries"}

----------------------------------------------------------------------------
(* The run: load, clean, build, then the calls of the sections *)

NoTables == [raised |-> "", t |-> <<>>]

NoCall == [table |-> "", disease |-> "", type |-> ""]

NoKpi == [shown |-> "", ratio |-> NA, d1_rate |-> NA, d10_rate |-> NA]

NoCmp == [raised |-> "", shown |-> "", rows |-> <<>>]

NoTop == [n |-> 0, by |-> "", out |-> <<>>]

NoFile == [state |-> "none", df |-> EmptyDF]

NoLoad == [raised |-> "", df |-> EmptyDF]

NoResult == [df_raw |-> EmptyDF, df_clean |-> EmptyDF, tables |-> <<>>,
             quality_report |-> <<>>]

NoCache == [valid |-> FALSE, value |-> NoResult]

NoWidgets == [section |-> "", selected_disease |-> "", rate_type |-> "",
              comparison_mode |-> ""]

NoView == [shown |-> "", sidebar |-> FALSE, event |-> ""]

\* The session before its first script run.
SessionStart ==
    /\ loaded = NoLoad
    /\ cache = NoCache
    /\ loads = 0
    /\ builds = 0
    /\ widgets = NoWidgets
    /\ view = NoView
    /\ runs = 0

SessionIdle == data_file = NoFile /\ SessionStart

InitIdle ==
    /\ df_clean = EmptyDF
    /\ df_clean2 = EmptyDF
    /\ direct = <<>>
    /\ filters = NoFilters
    /\ tables = NoTables
    /\ ratio_call = NoCall
    /\ ratio = NA
    /\ kpi = NoKpi
    /\ cmp = NoCmp
    /\ sliders = <<>>
    /\ age_in = ""
    /\ age_out = ""
    /\ top = NoTop
    /\ SessionIdle

Init ==
    /\ df_raw \in TablesOf(PipelinePool, MaxRows)
    /\ pc = "raw"
    /\ InitIdle

\* app.py load_and_prepare_data: df_clean = clean_data(df_raw)
CleanData ==
    /\ pc = "raw"
    /\ df_clean' = clean_data(df_raw)
    /\ pc' = "clean"
    /\ UNCHANGED <<df_raw, df_clean2, direct, filters, tables, ratio_call,
                   ratio, kpi, cmp, sliders, age_in, age_out,
                   top, session>>

\* clean_data applied to an already cleaned table.
CleanAgain ==
    /\ pc = "clean"
    /\ df_clean2' = clean_data(df_clean)
    /\ pc' = "clean2"
    /\ UNCHANGED <<df_raw, df_clean, direct, filters, tables, ratio_call,
                   ratio, kpi, cmp, sliders, age_in, age_out,
                   top, session>>

\* Each builder called on the cleaned table.
CallBuilders ==
    /\ pc = "clean"
    /\ direct' = [name \in TableNames |->
                    CASE name = "by_income" -> create_income_table(df_clean)
                      [] name = "by_region" -> create_region_table(df_clean)
                      [] name = "by_education" -> create_education_table(df_clean)
                      [] name = "by_csp" -> create_csp_table(df_clean)
                      [] name = "by_demographics" -> create_demographics_table(df_clean)
                      [] OTHER -> create_timeseries_table(df_clean)]
    /\ pc' = "direct"
    /\ UNCHANGED <<df_raw, df_clean, df_clean2, filters, tables, ratio_call,
                   ratio, kpi, cmp, sliders, age_in, age_out,
                   top, session>>

\* make_tables(df_clean, filters); app.py calls it with no filters.
MakeTables ==
    /\ pc = "clean"
    /\ \E f \in FilterSettings :
          /\ filters' = f
          /\ tables' = make_tables(df_clean, f)
    /\ pc' = "tables"
    /\ UNCHANGED <<df_raw, df_clean, df_clean2, direct, ratio_call, ratio,
                   kpi, cmp, sliders, age_in, age_out,
                   top, session>>

\* The sections receive the tables app.py built: make_tables(df_clean).
AppTables == pc = "tables" /\ filters = NoFilters /\ tables.raised = ""

\* deep_dives.py: calculate_inequality_ratio(tables['by_income'], disease,
\* rate_type); also called here on a table without income_decile.
Ratio ==
    /\ AppTables
    /\ \E name \in {"by_income", "by_region"}, disease \in Diseases,
          type_ \in RateTypes :
          /\ ratio_call' = [table |-> name, disease |-> disease, type |-> type_]
          /\ ratio' = calculate_inequality_ratio(tables.t[name], disease, type_)
    /\ pc' = "ratio"
    /\ UNCHANGED <<df_raw, df_clean, df_clean2, direct, filters, tables, kpi,
                   cmp, sliders, age_in, age_out,
                   top, session>>

\* app.py main: overview.render(tables, selected_disease, rate_type), reached
\* only when df_clean is not empty, with a disease of the select box.
OverviewKPI ==
    /\ AppTables
    /\ ~empty(df_clean)
    /\ \E disease \in all_diseases(df_clean), rate_type \in RateTypes :
          /\ ratio_call' = [table |-> "by_income", disease |-> disease,
                            type |-> rate_type]
          /\ kpi' = overview_kpi(tables.t, disease, rate_type)
    /\ pc' = "kpi"
    /\ UNCHANGED <<df_raw, df_clean, df_clean2, direct, filters, tables, ratio,
                   cmp, sliders, age_in, age_out,
                   top, session>>

\* The selections of the multiselect: sequences of distinct diseases.
Selections(ds) ==
    {sel \in UNION {[1..k -> ds] : k \in 0..Cardinality(ds)} :
        \A i, j \in 1..Len(sel) : i # j => sel[i] # sel[j]}

\* deep_dives.render, tab 4: the side-by-side comparison table.
DeepDivesCompare ==
    /\ AppTables
    /\ ~empty(df_clean)
    /\ \E sel \in Selections(all_diseases(df_clean)), rate_type \in RateTypes :
          /\ ratio_call' = [table |-> "by_income", disease |-> "",
                            type |-> rate_type, selected |-> sel]
          /\ cmp' = comparison_table(tables.t, sel, rate_type)
    /\ pc' = "cmp"
    /\ UNCHANGED <<df_raw, df_clean, df_clean2, direct, filters, tables, ratio,
                   kpi, sliders, age_in, age_out,
                   top, session>>

\* deep_dives.render: the sliders of the tabs, for a comparison mode and a
\* rate type of the sidebar.
DeepDivesSliders ==
    /\ AppTables
    /\ ~empty(df_clean)
    /\ \E comparison_mode \in ComparisonModes, rate_type \in RateTypes :
          /\ ratio_call' = [table |-> table_map(comparison_mode),
                            disease |-> "", type |-> rate_type]
          /\ sliders' = deep_dives_sliders(tables.t, df_clean,
                                           comparison_mode, rate_type)
    /\ pc' = "sliders"
    /\ UNCHANGED <<df_raw, df_clean, df_clean2, direct, filters, tables, ratio,
                   kpi, cmp, age_in, age_out, top, session>>

\* deep_dives.py: get_top_diseases(df_clean, n=n_diseases, by=rate_type).
MaxTopN == 3

TopDiseases ==
    /\ pc = "clean"
    /\ \E n \in 0..MaxTopN, by \in RateTypes :
          top' = [n |-> n, by |-> by, out |-> get_top_diseases(df_clean, n, by)]
    /\ pc' = "top"
    /\ UNCHANGED <<df_raw, df_clean, df_clean2, direct, filters, tables,
                   ratio_call, ratio, kpi, cmp, sliders, age_in, age_out, session>>

Next ==
    \/ CleanData
    \/ CallBuilders
    \/ MakeTables
    \/ Ratio
    \/ OverviewKPI
    \/ DeepDivesCompare
    \/ DeepDivesSliders
    \/ TopDiseases

Spec == Init /\ [][Next]_vars

\* Cleaning alone, on tables that hold malformed values.
InitClean ==
    /\ df_raw \in TablesOf(CleanPool, MaxRows)
    /\ pc = "raw"
    /\ InitIdle

NextClean ==
    \/ CleanData
    \/ CleanAgain

SpecClean == InitClean /\ [][NextClean]_vars

\* _age_to_bucket_label alone, on every short string over AgeChars and on
\* the codes of AgeExamples.
AgeChars == {"Y", "_", "G", "E", "1", "7", "5", "-", " ", "t"}

MaxAgeLen == 3

RECURSIVE Join(_)
Join(cs) == IF cs = <<>> THEN "" ELSE Head(cs) \o Join(Tail(cs))

AgeExamples ==
    {"TOTAL", "total", "Y_LT18", "LT18", "<18", "Y_GE75", "GE75", ">=75",
     GEQ \o "75", "Y18-24", "Y45-64", "18-64", "Y0-17", "Y16-29", "Y75-84",
     "Y25 " \o ENDASH \o " 34", "Y_GE16", "Y_GE18", "GE65", "Y_GE85",
     "Y18_24", "18 TO 24", "Y75_84", "Y35_44", "FOO", "UNK", " y55-64 ",
     "Y100-110", "Y65-", "Y-65", "Y25-10", "Y80-5", "Y17-18",
     "24-25", "Y74-75"}

AgeInputs ==
    {Join(cs) : cs \in UNION {[1..k -> AgeChars] : k \in 0..MaxAgeLen}}
    \cup AgeExamples

InitAge ==
    /\ age_in \in AgeInputs
    /\ age_out = ""
    /\ pc = "age"
    /\ df_raw = EmptyDF
    /\ df_clean = EmptyDF
    /\ df_clean2 = EmptyDF
    /\ direct = <<>>
    /\ filters = NoFilters
    /\ tables = NoTables
    /\ ratio_call = NoCall
    /\ ratio = NA
    /\ kpi = NoKpi
    /\ cmp = NoCmp
    /\ sliders = <<>>
    /\ top = NoTop
    /\ SessionIdle

AgeBucket ==
    /\ pc = "age"
    /\ age_out' = age_to_bucket_label(age_in)
    /\ pc' = "age_done"
    /\ UNCHANGED <<df_raw, df_clean, df_clean2, direct, filters, tables,
                   ratio_call, ratio, kpi, cmp, sliders, age_in,
                   top, session>>

NextAge == AgeBucket

SpecAge == InitAge /\ [][NextAge]_vars

----------------------------------------------------------------------------
(* utils/io.py: load_eurostat_csv *)

\* A file on disk: absent, unparsable, or the table of its text fields
\* (strings, the missing marker for an empty field) under its header names.
lower_char(ch) ==
    IF \E i \in 1..26 : SubSeq(Upper, i, i) = ch
    THEN LET i == CHOOSE j \in 1..26 : SubSeq(Upper, j, j) = ch
         IN SubSeq(Lower, i, i)
    ELSE ch

\* c.strip().lower().replace(" ", "_")
normalize_column(name) ==
    LET cs == strip(Chars(name))
    IN Join([i \in 1..Len(cs) |->
               IF cs[i] = " " THEN "_" ELSE lower_char(cs[i])])

str_upper(s) == Join(upper(Chars(s)))

\* The field texts pd.read_csv reads as the missing marker.
na_values == {"", "#N/A", "#N/A N/A", "#NA", "-1.#IND", "-1.#QNAN", "-NaN",
              "-nan", "1.#IND", "1.#QNAN", "<NA>", "N/A", "NA", "NULL", "NaN",
              "None", "n/a", "nan", "null"}

read_field(cell) ==
    IF cell.k = "str" /\ cell.s \in na_values THEN NA ELSE cell

\* The dtype pd.read_csv infers for a column.
csv_dtype(df, col) ==
    LET cells == {read_field(df.rows[i].c[col]) : i \in 1..Len(df.rows)}
        vals == {c \in cells : c.k # "na"}
    IN IF df.rows = <<>> THEN "object"
       ELSE IF \E c \in vals : ParseNumber(c.s).k # "num" THEN "object"
       ELSE IF NA \notin cells /\ \A c \in vals : ParseNumber(c.s).d = 1
            THEN "int64"
       ELSE "float64"

\* pd.read_csv(path): raises when the file is absent or cannot be parsed;
\* otherwise every column whose fields are all numbers holds numbers.
read_csv(file) ==
    IF file.state = "absent" THEN [raised |-> "FileNotFoundError", df |-> EmptyDF]
    ELSE IF file.state = "unparsable" THEN [raised |-> "ParserError", df |-> EmptyDF]
    ELSE [raised |-> "",
          df |-> [cols |-> file.df.cols,
                  rows |-> [i \in 1..Len(file.df.rows) |->
                      [idx |-> i - 1,
                       c |-> [col \in file.df.cols |->
                                IF csv_dtype(file.df, col) = "object"
                                THEN read_field(file.df.rows[i].c[col])
                                ELSE to_numeric(read_field(
                                         file.df.rows[i].c[col]))]]]]]

\* df.columns = [normalised names] (the names stay distinct).
normalize_columns(df) ==
    LET Old(new) == CHOOSE c \in df.cols : normalize_column(c) = new
        news == {normalize_column(c) : c \in df.cols}
    IN [cols |-> news,
        rows |-> [i \in 1..Len(df.rows) |->
                    [idx |-> df.rows[i].idx,
                     c |-> [col \in news |-> df.rows[i].c[Old(col)]]]]]

\* The .str accessor is usable: the column as read holds strings (object
\* dtype); a column of numbers or of missing values only has none.
has_str_accessor(df, col) ==
    df.rows = <<>> \/ \E i \in 1..Len(df.rows) : df.rows[i].c[col].k = "str"

sex_map == ("M" :> "Men") @@ ("F" :> "Women") @@ ("T" :> "Total")

\* The two long labels are abbreviated; the keys are those of the source.
inc_map == ("A_MD60" :> ">= 60% of median income - non-poor")
           @@ ("B_MD60" :> "< 60% of median income - at-risk-of-poverty")
           @@ ("TOTAL" :> "All the population")

iso2_to_iso3 ==
    ("AL" :> "ALB") @@ ("AT" :> "AUT") @@ ("BE" :> "BEL") @@ ("BG" :> "BGR")
    @@ ("CH" :> "CHE") @@ ("CY" :> "CYP") @@ ("CZ" :> "CZE") @@ ("DE" :> "DEU")
    @@ ("DK" :> "DNK") @@ ("EE" :> "EST") @@ ("EL" :> "GRC") @@ ("ES" :> "ESP")
    @@ ("FI" :> "FIN") @@ ("FR" :> "FRA") @@ ("HR" :> "HRV") @@ ("HU" :> "HUN")
    @@ ("IE" :> "IRL") @@ ("IS" :> "ISL") @@ ("IT" :> "ITA") @@ ("LI" :> "LIE")
    @@ ("LT" :> "LTU") @@ ("LU" :> "LUX") @@ ("LV" :> "LVA") @@ ("ME" :> "MNE")
    @@ ("MK" :> "MKD") @@ ("MT" :> "MLT") @@ ("NL" :> "NLD") @@ ("NO" :> "NOR")
    @@ ("PL" :> "POL") @@ ("PT" :> "PRT") @@ ("RO" :> "ROU") @@ ("RS" :> "SRB")
    @@ ("SE" :> "SWE") @@ ("SI" :> "SVN") @@ ("SK" :> "SVK") @@ ("TR" :> "TUR")
    @@ ("UK" :> "GBR") @@ ("GB" :> "GBR")

\* series.map(mapping): the mapped label, missing when the key is unmapped.
map_cell(cell, mapping) ==
    IF cell.k = "str" /\ cell.s \in DOMAIN mapping THEN Str(mapping[cell.s])
    ELSE NA

\* series.str.upper(): missing for an element that is no string.
str_upper_cell(cell) == IF cell.k = "str" THEN Str(str_upper(cell.s)) ELSE NA

fillna(cell, other) == IF isna(cell) THEN other ELSE cell

\* astype(str) of a column read by read_csv: an integer column prints
\* without decimals.
astype_str_of(dtype, cell) ==
    IF dtype = "int64" /\ cell.k = "num"
    THEN Str((IF cell.n < 0 THEN "-" ELSE "") \o IntToStr(Abs(cell.n)))
    ELSE astype_str(cell)

\* The column dtype after read_csv (cells are numbers or strings).
dtype_of(df, col) ==
    IF df.rows = <<>> THEN "object"
    ELSE IF \E i \in 1..Len(df.rows) : df.rows[i].c[col].k = "str" THEN "object"
    ELSE IF \A i \in 1..Len(df.rows) :
               df.rows[i].c[col].k = "num" /\ df.rows[i].c[col].d = 1
         THEN "int64"
    ELSE "float64"

Raised(exc) == [raised |-> exc, df |-> EmptyDF]

\* df = df[df["unit"].str.upper() == "PC"]
filter_unit(df) ==
    IF "unit" \in df.cols
    THEN FilterRows(df, LAMBDA r : str_upper_cell(r.c["unit"]) = Str("PC"))
    ELSE df

\* pd.to_numeric(df["time_period"], errors="coerce"), before astype("Int64").
with_year(df) ==
    IF "time_period" \in df.cols
    THEN AddCol(df, "year", "time_period", to_numeric)
    ELSE df

\* astype("Int64") has a number that is no integer to convert.
year_not_integer(df) ==
    /\ "year" \in df.cols
    /\ \E i \in 1..Len(df.rows) :
          df.rows[i].c["year"].k = "num" /\ df.rows[i].c["year"].d # 1

\* df["obs_value"] = pd.to_numeric(df.get("obs_value"), errors="coerce")
with_obs_value(df) ==
    IF "obs_value" \in df.cols
    THEN MapCols(df, {"obs_value"}, to_numeric)
    ELSE [cols |-> df.cols \cup {"obs_value"},
          rows |-> [i \in 1..Len(df.rows) |->
              [idx |-> df.rows[i].idx,
               c |-> [col \in df.cols \cup {"obs_value"} |->
                        IF col = "obs_value" THEN NA
                        ELSE df.rows[i].c[col]]]]]

\* df["sex_label"] = df["sex"].map(sex_map).fillna(df["sex"])
with_sex_label(df) ==
    IF "sex" \in df.cols
    THEN [cols |-> df.cols \cup {"sex_label"},
          rows |-> [i \in 1..Len(df.rows) |->
              [idx |-> df.rows[i].idx,
               c |-> [col \in df.cols \cup {"sex_label"} |->
                        IF col = "sex_label"
                        THEN fillna(map_cell(df.rows[i].c["sex"], sex_map),
                                    df.rows[i].c["sex"])
                        ELSE df.rows[i].c[col]]]]]
    ELSE df

\* age_label = df["age"].astype(str), age_bucket_label its bucket; dtype is
\* the dtype of the age column as read.
with_age_labels(df, dtype) ==
    IF "age" \in df.cols
    THEN [cols |-> df.cols \cup {"age_label", "age_bucket_label"},
          rows |-> [i \in 1..Len(df.rows) |->
              [idx |-> df.rows[i].idx,
               c |-> [col \in df.cols \cup {"age_label", "age_bucket_label"} |->
                        IF col = "age_label"
                        THEN astype_str_of(dtype, df.rows[i].c["age"])
                        ELSE IF col = "age_bucket_label"
                        THEN Str(age_to_bucket_label(
                                 astype_str_of(dtype, df.rows[i].c["age"]).s))
                        ELSE df.rows[i].c[col]]]]]
    ELSE df

\* df["incgrp_label"] = df["incgrp"].str.upper().map(inc_map).fillna(...)
with_incgrp_label(df) ==
    IF "incgrp" \in df.cols
    THEN [cols |-> df.cols \cup {"incgrp_label"},
          rows |-> [i \in 1..Len(df.rows) |->
              [idx |-> df.rows[i].idx,
               c |-> [col \in df.cols \cup {"incgrp_label"} |->
                        IF col = "incgrp_label"
                        THEN fillna(map_cell(str_upper_cell(
                                        df.rows[i].c["incgrp"]), inc_map),
                                    df.rows[i].c["incgrp"])
                        ELSE df.rows[i].c[col]]]]]
    ELSE df

\* df["iso3"] = df["geo"].str.upper().map(iso2_to_iso3)
with_iso3(df) ==
    IF "geo" \in df.cols
    THEN [cols |-> df.cols \cup {"iso3"},
          rows |-> [i \in 1..Len(df.rows) |->
              [idx |-> df.rows[i].idx,
               c |-> [col \in df.cols \cup {"iso3"} |->
                        IF col = "iso3"
                        THEN map_cell(str_upper_cell(df.rows[i].c["geo"]),
                                      iso2_to_iso3)
                        ELSE df.rows[i].c[col]]]]]
    ELSE df

\* From the unit filter on: s1 is the table as read (its dtypes stay), s2
\* the rows of unit PC.
load_filtered(s1, s2) ==
    IF "time_period" \in s2.cols /\ year_not_integer(with_year(s2))
    THEN Raised("TypeError")
    ELSE IF "incgrp" \in s1.cols /\ ~has_str_accessor(s1, "incgrp")
         THEN Raised("AttributeError")
    ELSE IF "geo" \in s1.cols /\ ~has_str_accessor(s1, "geo")
         THEN Raised("AttributeError")
    ELSE [raised |-> "",
          df |-> with_iso3(with_incgrp_label(with_age_labels(
                     with_sex_label(with_obs_value(with_year(s2))),
                     dtype_of(s1, "age"))))]

load_normalized(s1) ==
    IF "unit" \in s1.cols /\ ~has_str_accessor(s1, "unit")
    THEN Raised("AttributeError")
    ELSE load_filtered(s1, filter_unit(s1))

load_read(r0) ==
    IF r0.raised # "" THEN Raised(r0.raised)
    ELSE load_normalized(normalize_columns(r0.df))

load_eurostat_csv(file) == load_read(read_csv(file))

\* utils.io.load_data is not among the source files; it is modelled from
\* the Loader of the specification: the table of the file, or an empty table
\* when the file is absent, unparsable or lacks a required column.
load_data(file) ==
    IF file.state # "ok" THEN EmptyDF
    ELSE IF ~(required_cols \subseteq file.df.cols) THEN EmptyDF
    ELSE MkTable([i \in 1..Len(file.df.rows) |-> file.df.rows[i].c], file.df.cols)

\* 'total_records', 'total_columns', 'missing_by_column' and
\* 'missing_required_cols' of the quality report.
get_data_quality_report(df) ==
    [total_records |-> Len(df.rows),
     total_columns |-> Cardinality(df.cols),
     missing_by_column |->
         [col \in df.cols |->
             Cardinality({i \in 1..Len(df.rows) : isna(df.rows[i].c[col])})],
     missing_required_cols |-> required_cols \ df.cols]

\* load_and_prepare_data from clean_data on.
prepared(raw, clean) ==
    [df_raw |-> raw, df_clean |-> clean,
     tables |-> make_tables(clean, NoFilters).t,
     quality_report |-> get_data_quality_report(clean)]

prepare_loaded(raw) ==
    IF empty(raw)
    THEN [df_raw |-> raw, df_clean |-> raw, tables |-> <<>>,
          quality_report |-> <<>>]
    ELSE prepared(raw, clean_data(raw))

\* app.py load_and_prepare_data (the body under st.cache_data).
load_and_prepare_data(file) == prepare_loaded(load_data(file))

----------------------------------------------------------------------------
(* The loaders, each called on a file *)

\* A Eurostat file of the given rows under the header names of headers (a
\* function from the normalised column names to the names in the file).
EuroRow(unit, time_period, obs_value, sex, age, incgrp, geo) ==
    [col \in {"unit", "time_period", "obs_value", "sex", "age", "incgrp",
              "geo"} |->
        CASE col = "unit" -> unit
          [] col = "time_period" -> time_period
          [] col = "obs_value" -> obs_value
          [] col = "sex" -> sex
          [] col = "age" -> age
          [] col = "incgrp" -> incgrp
          [] OTHER -> geo]

EuroPool ==
    {EuroRow(Str("PC"), Str("2020"), Str("12.5"), Str("F"), Str("Y18-24"),
             Str("A_MD60"), Str("FR")),
     EuroRow(Str("pc"), Str("2021"), Str(":"), Str("T"), Str("TOTAL"),
             Str("total"), Str("el")),
     EuroRow(Str("THS"), Str("2020"), Str("3"), Str("M"), Str("Y_GE75"),
             Str("B_MD60"), Str("XX")),
     EuroRow(NA, NA, NA, NA, NA, NA, NA),
     EuroRow(Str("PC"), Str("2020.5"), Str("7"), Str("X"), Str("75"), Str("OTHER"),
             Str("UK"))}

EuroHeaders ==
    {("unit" :> "unit") @@ ("time_period" :> "TIME_PERIOD")
        @@ ("obs_value" :> "OBS_VALUE") @@ ("sex" :> "sex") @@ ("age" :> "age")
        @@ ("incgrp" :> "incgrp") @@ ("geo" :> "geo"),
     ("unit" :> " Unit") @@ ("time_period" :> "time period")
        @@ ("sex" :> "Sex") @@ ("age" :> "AGE ")}

EuroTable(rowseq, headers) ==
    LET names == {headers[k] : k \in DOMAIN headers}
        Key(name) == CHOOSE k \in DOMAIN headers : headers[k] = name
    IN [cols |-> names,
        rows |-> [i \in 1..Len(rowseq) |->
                    [idx |-> i - 1,
                     c |-> [name \in names |-> rowseq[i][Key(name)]]]]]

OkFile(df) == [state |-> "ok", df |-> df]

\* The files: absent, unparsable, Eurostat files, files of the dashboard.
LoadFiles ==
    {[state |-> "absent", df |-> EmptyDF], [state |-> "unparsable", df |-> EmptyDF]}
    \cup {OkFile(EuroTable(rs, h)) :
             rs \in UNION {[1..k -> EuroPool] : k \in 0..MaxRows},
             h \in EuroHeaders}
    \cup {OkFile(t) : t \in TablesOf(PipelinePool, 1)}

InitLoad ==
    /\ data_file \in LoadFiles
    /\ pc = "file"
    /\ df_raw = EmptyDF
    /\ df_clean = EmptyDF
    /\ df_clean2 = EmptyDF
    /\ direct = <<>>
    /\ filters = NoFilters
    /\ tables = NoTables
    /\ ratio_call = NoCall
    /\ ratio = NA
    /\ kpi = NoKpi
    /\ cmp = NoCmp
    /\ sliders = <<>>
    /\ age_in = ""
    /\ age_out = ""
    /\ top = NoTop
    /\ SessionStart

\* load_eurostat_csv(path)
LoadEurostatCsv ==
    /\ pc = "file"
    /\ loaded' = load_eurostat_csv(data_file)
    /\ pc' = "loaded"
    /\ UNCHANGED <<df_raw, df_clean, df_clean2, direct, filters, tables,
                   ratio_call, ratio, kpi, cmp, sliders, age_in, age_out, top,
                   data_file, cache, loads, builds, widgets, view, runs>>

\* load_and_prepare_data() with nothing memoized: the body runs and its
\* result is stored.
Prepared(res) ==
    /\ cache' = [valid |-> TRUE, value |-> res]
    /\ df_raw' = res.df_raw
    /\ df_clean' = res.df_clean
    /\ tables' = [raised |-> "", t |-> res.tables]

LoadAndPrepare ==
    /\ pc = "file"
    /\ Prepared(load_and_prepare_data(data_file))
    /\ loads' = loads + 1
    /\ pc' = "prepared"
    /\ UNCHANGED <<df_clean2, direct, filters, ratio_call, ratio, kpi, cmp, sliders,
                   age_in, age_out, top, data_file, loaded, builds, widgets,
                   view, runs>>

NextLoad ==
    \/ LoadEurostatCsv
    \/ LoadAndPrepare

SpecLoad == InitLoad /\ [][NextLoad]_vars

----------------------------------------------------------------------------
(* app.py: main, one script run per user interaction *)

AppSections == {"Introduction", "Overview", "Data Quality", "Deep Dives",
                "Conclusions"}

\* sorted(labels)[0]
first_sorted(labels) ==
    CHOOSE x \in labels : \A y \in labels \ {x} : StrLess(x, y)

\* A call of load_and_prepare_data without memoization.
cached_call_no_memo(c, file) ==
    [value |-> load_and_prepare_data(file), ran |-> TRUE]

\* A call of load_and_prepare_data under @st.cache_data: the stored value
\* when there is one, otherwise the body runs (ran) and its value is stored.
cached_call(c, file) ==
    IF c.valid THEN [value |-> c.value, ran |-> FALSE]
    ELSE [value |-> load_and_prepare_data(file), ran |-> TRUE]

\* The test of main on an empty table that looks at the columns only.
load_failed_no_columns(df) == df.cols = {}

\* main: `if df_clean.empty` (report the failure and st.stop()).
load_failed(df) == empty(df)

\* The value a widget shows in this run: the value of the session when it
\* is among the options, otherwise the first option.
selectbox(value, options, default) ==
    IF value \in options THEN value ELSE default

\* The widget values of this run, ds being the options of the disease box.
widgets_shown(w, ds) ==
    [section |-> selectbox(w.section, AppSections, "Introduction"),
     selected_disease |-> selectbox(w.selected_disease, ds, first_sorted(ds)),
     rate_type |-> selectbox(w.rate_type, RateTypes, "prevalence"),
     comparison_mode |-> selectbox(w.comparison_mode, ComparisonModes,
                                   "Income Decile")]

\* main stopped at `if df_clean.empty`.
main_failed(call, w, event) ==
    [cache |-> [valid |-> TRUE, value |-> call.value],
     ran |-> call.ran,
     built |-> call.ran /\ ~empty(call.value.df_raw),
     df_raw |-> call.value.df_raw,
     df_clean |-> call.value.df_clean,
     tables |-> [raised |-> "", t |-> call.value.tables],
     widgets |-> w,
     view |-> [shown |-> "failed", sidebar |-> FALSE, event |-> event]]

\* main past the sidebar: the section of the radio is rendered.
main_routed(base, shown, event) ==
    [base EXCEPT !.widgets = shown,
                 !.view = [shown |-> shown.section, sidebar |-> TRUE,
                           event |-> event]]

\* main from the sidebar on, ds being all_diseases.
main_sidebar(base, ds, w, event) ==
    IF load_failed(base.df_clean) THEN base
    ELSE IF ds = {}
         THEN [base EXCEPT !.view = [shown |-> "no_diseases",
                                     sidebar |-> FALSE, event |-> event]]
    ELSE main_routed(base, widgets_shown(w, ds), event)

main_loaded(call, w, event) ==
    main_sidebar(main_failed(call, w, event),
                 all_diseases(call.value.df_clean), w, event)

\* One run of main with the widget values w of the session: the cache entry
\* after the call, whether the body of load_and_prepare_data ran, the locals
\* of main, the widget values shown and what was rendered.
main(c, file, w, event) == main_loaded(cached_call(c, file), w, event)

\* The files of the session: absent, unparsable, a file of one disease, one
\* of two diseases, one whose rows all lack the rate type, one with a header
\* only, one without the required columns.
AppFiles ==
    {[state |-> "absent", df |-> EmptyDF],
     [state |-> "unparsable", df |-> EmptyDF],
     OkFile(MkTable(
        <<RawRow(Str(INC), Str("1"), Str("Diabetes"), Str("prevalence"),
                 Str("12.0"), Str("11.0"), Str("13.0"), Str("100"),
                 Str("2020"), Str("FISC_REG_S"), Str("11")),
          RawRow(Str(INC), Str("10"), Str("Diabetes"), Str("prevalence"),
                 Str("4.0"), Str("3.0"), Str("5.0"), Str("200"), Str("2020"),
                 Str("FISC_REG_S"), Str("11"))>>,
        required_cols \cup optional_cols)),
     OkFile(MkTable(
        <<RawRow(Str(INC), Str("1"), Str("Diabetes"), Str("prevalence"),
                 Str("12.0"), Str("11.0"), Str("13.0"), Str("100"),
                 Str("2020"), Str("FISC_REG_S"), Str("11")),
          RawRow(Str("SEXE"), Str("F"), Str("Asthma"), Str("incidence"),
                 Str("8.0"), Str("7.0"), Str("9.0"), Str("70"), NA,
                 Str("FISC_REG_S"), Str("11"))>>,
        required_cols \cup optional_cols)),
     OkFile(MkTable(
        <<RawRow(Str(INC), Str("1"), Str("Asthma"), NA,
                 Str("9.0"), Str("8.0"), Str("10.0"), Str("10"), Str("2020"),
                 Str("FISC_REG_S"), Str("11"))>>,
        required_cols)),
     OkFile(MkTable(<<>>, required_cols \cup optional_cols)),
     OkFile(MkTable(
        <<RawRow(Str(INC), Str("1"), Str("Diabetes"), Str("prevalence"),
                 Str("12.0"), Str("11.0"), Str("13.0"), Str("100"),
                 Str("2020"), Str("FISC_REG_S"), Str("11"))>>,
        {"varTauxLib", "type", "txStandDir"}))}

MaxRuns == 3

InitApp ==
    /\ data_file \in AppFiles
    /\ pc = "app"
    /\ df_raw = EmptyDF
    /\ df_clean = EmptyDF
    /\ df_clean2 = EmptyDF
    /\ direct = <<>>
    /\ filters = NoFilters
    /\ tables = NoTables
    /\ ratio_call = NoCall
    /\ ratio = NA
    /\ kpi = NoKpi
    /\ cmp = NoCmp
    /\ sliders = <<>>
    /\ age_in = ""
    /\ age_out = ""
    /\ top = NoTop
    /\ SessionStart

\* A script run: main from top to bottom, with the cache entry c and the
\* widget values w the interaction left in the session.
MainReturns(m, loads_before) ==
    /\ cache' = m.cache
    /\ loads' = loads_before + (IF m.ran THEN 1 ELSE 0)
    /\ builds' = builds + (IF m.built THEN 1 ELSE 0)
    /\ df_raw' = m.df_raw
    /\ df_clean' = m.df_clean
    /\ tables' = m.tables
    /\ widgets' = m.widgets
    /\ view' = m.view

ScriptRun(c, w, event, loads_before) ==
    /\ runs < MaxRuns
    /\ MainReturns(main(c, data_file, w, event), loads_before)
    /\ runs' = runs + 1
    /\ UNCHANGED <<df_clean2, direct, filters, ratio_call, ratio, kpi, cmp, sliders,
                   age_in, age_out, top, data_file, loaded, pc>>

\* The page is opened or reloaded: no widget changes.
Open == ScriptRun(cache, widgets, "open", loads)

\* The user picks another section in the sidebar.
Navigate ==
    /\ view.sidebar
    /\ \E s \in AppSections \ {widgets.section} :
          ScriptRun(cache, [widgets EXCEPT !.section = s], "navigate", loads)

\* The user changes a filter: the disease, the rate type or the comparison
\* dimension.
ChangeFilter ==
    /\ view.sidebar
    /\ \/ \E d \in all_diseases(df_clean) \ {widgets.selected_disease} :
             ScriptRun(cache, [widgets EXCEPT !.selected_disease = d],
                       "filter", loads)
       \/ \E t \in RateTypes \ {widgets.rate_type} :
             ScriptRun(cache, [widgets EXCEPT !.rate_type = t], "filter",
                       loads)
       \/ \E cm \in ComparisonModes \ {widgets.comparison_mode} :
             ScriptRun(cache, [widgets EXCEPT !.comparison_mode = cm],
                       "filter", loads)

\* The cache-clear button offered on every page, the failure page included.
ClearCacheAnywhere ==
    /\ view.shown # ""
    /\ ScriptRun(NoCache, widgets, "clear", 0)

\* The user presses "Clear Cache & Reload" in the Data Quality section:
\* st.cache_data.clear(), then st.rerun().
ClearCache ==
    /\ view.shown = "Data Quality"
    /\ ScriptRun(NoCache, widgets, "clear", 0)

\* The file on disk is replaced or removed (outside the application).
FileChanges ==
    /\ runs < MaxRuns
    /\ \E f \in AppFiles \ {data_file} : data_file' = f
    /\ UNCHANGED <<df_raw, df_clean, df_clean2, direct, filters, tables,
                   ratio_call, ratio, kpi, cmp, sliders, age_in, age_out, top,
                   loaded,
                   cache, loads, builds, widgets, view, runs, pc>>

NextApp ==
    \/ Open
    \/ Navigate
    \/ ChangeFilter
    \/ ClearCache
    \/ FileChanges

SpecApp == InitApp /\ [][NextApp]_vars

----------------------------------------------------------------------------
(* Properties *)

\* The positions of the rows of table t for (disease, type_) in decile v.
DecileRows(t, disease, type_, v) ==
    {i \in 1..Len(t.rows) :
        /\ {"income_decile", "varTauxLib", "type"} \subseteq t.cols
        /\ t.rows[i].c["varTauxLib"] = Str(disease)
        /\ t.rows[i].c["type"] = Str(type_)
        /\ t.rows[i].c["income_decile"] = Num(v, 1)}

FirstOf(S) == CHOOSE i \in S : \A j \in S : i <= j

RateAt(t, i) == t.rows[i].c["txStandDir"]

\* q is the quotient a / b of two numbers, b # 0.
IsQuotient(q, a, b) == q.k = "num" /\ q.n * b.n * a.d = a.n * b.d * q.d

\* C1: calculate_inequality_ratio returns the decile-1 rate divided by the
\* decile-10 rate when both rows exist and the decile-10 rate is not zero
\* (missing when one of the two rates is missing), and the undefined value
\* in every other case; it never divides by zero.
C1_RatioContract ==
    pc = "ratio" =>
        LET t == tables.t[ratio_call.table]
            R1 == DecileRows(t, ratio_call.disease, ratio_call.type, 1)
            R10 == DecileRows(t, ratio_call.disease, ratio_call.type, 10)
        IN /\ ratio.k # "inf"
           /\ IF R1 # {} /\ R10 # {} /\ RateAt(t, FirstOf(R10)) # Num(0, 1)
              THEN LET a == RateAt(t, FirstOf(R1))
                       b == RateAt(t, FirstOf(R10))
                   IN IF a.k = "num" /\ b.k = "num" THEN IsQuotient(ratio, a, b)
                      ELSE ratio = NA
              ELSE ratio = NA

\* Rates 12.0 and 4.0 give the ratio 3.0.
C1_Witness ==
    /\ pc = "ratio"
    /\ ratio = Num(3, 1)
    /\ \E i, j \in 1..Len(tables.t["by_income"].rows) :
          /\ RateAt(tables.t["by_income"], i) = Num(12, 1)
          /\ RateAt(tables.t["by_income"], j) = Num(4, 1)

\* The ratio is undefined for (disease, type_) in the income table t: an
\* extreme decile is absent or the decile-10 rate is zero.
RatioUndefined(t, disease, type_) ==
    LET R1 == DecileRows(t, disease, type_, 1)
        R10 == DecileRows(t, disease, type_, 10)
    IN R1 = {} \/ R10 = {} \/ RateAt(t, FirstOf(R10)) = Num(0, 1)

\* C2: wherever the D1/D10 ratio is computed for display
\* (calculate_inequality_ratio, the Overview KPI block, the Deep Dives
\* comparison table), a zero decile-10 rate or an absent extreme decile gives
\* the undefined value, never 0 or another number.
C2_UndefinedNeverDefault ==
    /\ pc = "ratio" =>
          (RatioUndefined(tables.t[ratio_call.table], ratio_call.disease,
                          ratio_call.type) => ratio = NA)
    /\ pc = "kpi" /\ kpi.shown = "metrics" =>
          (RatioUndefined(tables.t["by_income"], ratio_call.disease,
                          ratio_call.type) => kpi.ratio = NA)
    /\ pc = "cmp" =>
          \A i \in 1..Len(cmp.rows) :
              RatioUndefined(tables.t["by_income"], cmp.rows[i].disease,
                             ratio_call.type) => cmp.rows[i].ratio = NA

Buckets == {"Total", "<18", "18-24", "25-34", "35-44", "45-54", "55-64",
            "65-74", GEQ \o "75"}

\* C3: _age_to_bucket_label maps every string to one of the nine canonical
\* buckets.
C3_AgeBucketTotal == pc = "age_done" => age_out \in Buckets

\* "Y_GE75" is mapped to the bucket of 75 and over.
C3_Witness == pc = "age_done" /\ age_in = "Y_GE75" /\ age_out = GEQ \o "75"

----------------------------------------------------------------------------
(* Properties of clean_data *)

\* The numeric literals among the raw values, <<text, n, d>> for the value
\* n/d, and the raw values that are no number.
NumberLiterals ==
    {<<"12.0", 12, 1>>, <<"4.0", 4, 1>>, <<"0", 0, 1>>, <<"5.", 5, 1>>,
     <<"11.0", 11, 1>>, <<"3.0", 3, 1>>, <<"-0.5", -1, 2>>, <<".5", 1, 2>>,
     <<"13.0", 13, 1>>, <<"5.0", 5, 1>>, <<"+1.5", 3, 2>>, <<"100", 100, 1>>,
     <<"200", 200, 1>>, <<"7", 7, 1>>}

NotNumbers == {"abc", "1.2.3", "", "1e", ".", "-"}

\* out is what numeric coercion must make of the raw cell.
Coerced(raw, out) ==
    IF raw.k # "str" THEN out = raw
    ELSE IF \E lit \in NumberLiterals : lit[1] = raw.s
    THEN \E lit \in NumberLiterals :
            lit[1] = raw.s /\ out.k = "num" /\ out.n * lit[3] = lit[2] * out.d
    ELSE raw.s \in NotNumbers /\ out = NA

IdentPresent(r) == r.c["varTauxLib"].k # "na" /\ r.c["type"].k # "na"

\* C4: clean_data keeps every row whose identifying fields are present,
\* whatever its numeric cells hold; in each numeric column an unparseable
\* value becomes the missing marker and a parseable one keeps its value.
C4_NumericCoercion ==
    pc = "clean" =>
        \A i \in 1..Len(df_raw.rows) :
            IdentPresent(df_raw.rows[i]) =>
                \E j \in 1..Len(df_clean.rows) :
                    /\ df_clean.rows[j].idx = df_raw.rows[i].idx
                    /\ \A col \in numeric_cols \cap df_raw.cols :
                          Coerced(df_raw.rows[i].c[col], df_clean.rows[j].c[col])

\* A row with the rate "abc" is kept, its rate missing.
C4_Witness ==
    /\ pc = "clean"
    /\ \E i \in 1..Len(df_raw.rows), j \in 1..Len(df_clean.rows) :
          /\ df_clean.rows[j].idx = df_raw.rows[i].idx
          /\ df_raw.rows[i].c["txStandDir"] = Str("abc")
          /\ df_clean.rows[j].c["txStandDir"] = NA

C6_Idempotent == pc = "clean2" => df_clean2 = df_clean

\* A cleaned table with a derived year, a missing grouping value turned into
\* 'nan' and a number turned into a string.
C6_Witness ==
    /\ pc = "clean2"
    /\ "year" \in df_clean2.cols
    /\ \E j \in 1..Len(df_clean2.rows) :
          df_clean2.rows[j].c["valGroupage"] = Str("nan")
    /\ \E j \in 1..Len(df_clean2.rows) :
          df_clean2.rows[j].c["valGroupage"] = Str("10.0")

----------------------------------------------------------------------------
(* Properties of the table builders *)

\* The grouping variables of the five dimensions keyed on varGroupage.
DimVars(name) ==
    CASE name = "by_income" -> {INC}
      [] name = "by_region" -> {"FISC_REG_S"}
      [] name = "by_education" -> {"EAR_DIPLR_S"}
      [] name = "by_csp" -> {"EAR_GS_S"}
      [] name = "by_demographics" -> {"classeAge10", "SEXE"}
      [] OTHER -> {}

KeyedDims == TableNames \ {"timeseries"}

\* The grouping values that cast to a number, <<text, value>>.
CastLiterals == {<<"1", 1>>, <<"10", 10>>, <<"11", 11>>, <<"60", 60>>}

\* The grouping value of row r is present and is not the marker 'nan'.
HasGroupValue(r) ==
    r.c["valGroupage"].k = "str" /\ r.c["valGroupage"].s # "nan"

\* Row r of a cleaned table is one the dimension can aggregate.
UsableRow(df, name, r) ==
    IF name = "timeseries" THEN "year" \in df.cols /\ r.c["year"].k = "num"
    ELSE /\ r.c["varGroupage"].k = "str"
         /\ r.c["varGroupage"].s \in DimVars(name)
         /\ HasGroupValue(r)
         /\ name = "by_income" =>
               \E lit \in CastLiterals : lit[1] = r.c["valGroupage"].s

UsableRows(df, name) ==
    {i \in 1..Len(df.rows) : UsableRow(df, name, df.rows[i])}

\* C7: a builder called on a cleaned table, and make_tables, return an empty
\* table for a dimension without usable rows (no row of its grouping variable,
\* only missing grouping values, or for income only values that are no
\* number); make_tables called without filters does not raise.
C7_EmptyDimension ==
    /\ pc = "direct" =>
          \A name \in TableNames :
              UsableRows(df_clean, name) = {} => direct[name].rows = <<>>
    /\ pc = "tables" =>
          /\ filters = NoFilters => tables.raised = ""
          /\ tables.raised = "" =>
                \A name \in TableNames :
                    UsableRows(df_clean, name) = {} =>
                        tables.t[name].rows = <<>>

\* Income rows whose grouping value is no number: the income table has its
\* columns and no row; a region row without grouping value: no region table.
C7_Witness ==
    /\ pc = "direct"
    /\ \E i \in 1..Len(df_clean.rows) :
          df_clean.rows[i].c["varGroupage"] = Str(INC)
    /\ \E i \in 1..Len(df_clean.rows) :
          /\ df_clean.rows[i].c["varGroupage"] = Str("FISC_REG_S")
          /\ df_clean.rows[i].c["valGroupage"] = Str("nan")
    /\ direct["by_income"].rows = <<>>
    /\ direct["by_income"].cols # {}
    /\ direct["by_region"] = EmptyDF

\* C8: make_tables returns, for every cleaned table and filter setting, a
\* mapping with exactly the six table names; timeseries is an empty table
\* when the input has no year column.
C8_SixTables ==
    pc = "tables" =>
        /\ tables.raised = ""
        /\ DOMAIN tables.t = TableNames
        /\ "year" \notin df_clean.cols => tables.t["timeseries"] = EmptyDF

\* The same, for the calls that return.
C8_SixTablesWhenReturned ==
    pc = "tables" /\ tables.raised = "" =>
        /\ DOMAIN tables.t = TableNames
        /\ "year" \notin df_clean.cols => tables.t["timeseries"] = EmptyDF

\* The builder of a dimension.
BuilderOf(name, df) ==
    CASE name = "by_income" -> create_income_table(df)
      [] name = "by_region" -> create_region_table(df)
      [] name = "by_education" -> create_education_table(df)
      [] name = "by_csp" -> create_csp_table(df)
      [] name = "by_demographics" -> create_demographics_table(df)
      [] OTHER -> create_timeseries_table(df)

\* The rows of df that carry the dimension's grouping variable (for the time
\* series: none of the other dimensions' variables) with a grouping value
\* that is present and not 'nan'.
OwnRows(df, name) ==
    [df EXCEPT !.rows = SelectSeq(@, LAMBDA r :
        /\ HasGroupValue(r)
        /\ r.c["varGroupage"].k = "str"
        /\ IF name = "timeseries"
           THEN r.c["varGroupage"].s \notin UNION {DimVars(d) : d \in KeyedDims}
           ELSE r.c["varGroupage"].s \in DimVars(name))]

\* C9: each of the six tables aggregates only the rows that carry its own
\* grouping variable with a grouping value that is present and not 'nan':
\* the other rows contribute nothing to it.
C9_OwnRowsOnly ==
    pc = "direct" =>
        \A name \in TableNames :
            direct[name] = BuilderOf(name, OwnRows(df_clean, name))

\* The same for the five dimensions keyed on varGroupage.
C9_KeyedDimsOwnRowsOnly ==
    pc = "direct" =>
        \A name \in KeyedDims :
            direct[name] = BuilderOf(name, OwnRows(df_clean, name))

----------------------------------------------------------------------------
(* Properties of the aggregation *)

\* The key columns of a built table, in grouping order.
KeyCols(name) ==
    CASE name = "by_income" -> <<"income_decile", "varTauxLib", "type">>
      [] name = "by_region" -> <<"region_code", "varTauxLib", "type">>
      [] name = "by_education" -> <<"education_level", "varTauxLib", "type">>
      [] name = "by_csp" -> <<"csp_group", "varTauxLib", "type">>
      [] name = "by_demographics" ->
             <<"varGroupage", "valGroupage", "varTauxLib", "type">>
      [] OTHER -> <<"year", "varTauxLib", "type">>

\* The key under which row r of the cleaned table is grouped.
SourceKey(name, r) ==
    CASE name = "by_income" ->
             LET lit == CHOOSE l \in CastLiterals : l[1] = r.c["valGroupage"].s
             IN <<Num(lit[2], 1), r.c["varTauxLib"], r.c["type"]>>
      [] name = "by_demographics" ->
             <<r.c["varGroupage"], r.c["valGroupage"], r.c["varTauxLib"],
               r.c["type"]>>
      [] name = "timeseries" ->
             <<r.c["year"], r.c["varTauxLib"], r.c["type"]>>
      [] OTHER -> <<r.c["valGroupage"], r.c["varTauxLib"], r.c["type"]>>

\* The sum, in tenths, of column col over the rows of df at the positions S
\* (the values of the inputs have at most one decimal digit).
RECURSIVE SumTenths(_, _, _)
SumTenths(df, col, S) ==
    IF S = {} THEN 0
    ELSE LET i == CHOOSE x \in S : TRUE
             v == df.rows[i].c[col]
         IN (v.n * 10) \div v.d + SumTenths(df, col, S \ {i})

Present(df, col, S) == {i \in S : df.rows[i].c[col].k = "num"}

\* m is the mean, s the sum, of the present values of col at the positions S.
IsMean(m, df, col, S) ==
    LET P == Present(df, col, S)
    IN IF P = {} THEN m = NA
       ELSE m.k = "num" /\ m.n * Cardinality(P) * 10 = m.d * SumTenths(df, col, P)

IsSum(s, df, col, S) ==
    s.k = "num" /\ s.n * 10 = s.d * SumTenths(df, col, Present(df, col, S))

CICols == {"txStandDirModBB", "txStandDirModBH"}

\* Table t is the aggregate of the usable rows of df for the dimension: one
\* row per distinct key, holding the mean rate, the mean of each column of
\* ci, and the summed weight when df has the weight column; no other column.
Aggregates(t, df, name, ci) ==
    LET U == UsableRows(df, name)
        keys == {SourceKey(name, df.rows[i]) : i \in U}
        kc == KeyCols(name)
        wt == {"poids1"} \cap df.cols
        OutKey(j) == [k \in 1..Len(kc) |-> t.rows[j].c[kc[k]]]
    IN /\ Len(t.rows) = Cardinality(keys)
       /\ \A key \in keys :
             LET G == {i \in U : SourceKey(name, df.rows[i]) = key}
             IN /\ t.cols = {kc[k] : k \in 1..Len(kc)} \cup {"txStandDir"}
                              \cup ci \cup wt
                /\ \E j \in 1..Len(t.rows) :
                      /\ OutKey(j) = key
                      /\ \A j2 \in 1..Len(t.rows) : OutKey(j2) = key => j2 = j
                      /\ IsMean(t.rows[j].c["txStandDir"], df, "txStandDir", G)
                      /\ \A col \in ci : IsMean(t.rows[j].c[col], df, col, G)
                      /\ \A col \in wt : IsSum(t.rows[j].c[col], df, col, G)

\* C10 as stated: every built table has one row per key with the mean rate,
\* the mean of each confidence-bound column the input has, and the summed
\* weight.
C10_AggregateRows ==
    pc = "direct" =>
        \A name \in TableNames :
            Aggregates(direct[name], df_clean, name, CICols \cap df_clean.cols)

\* C10 amended: the income, region, education and occupation tables hold the
\* means of the confidence-bound columns the input has; the demographics and
\* time-series tables hold only the mean rate and the summed weight.
C10_AggregateRowsAmended ==
    pc = "direct" =>
        \A name \in TableNames :
            Aggregates(direct[name], df_clean, name,
                       IF name \in {"by_demographics", "timeseries"} THEN {}
                       ELSE CICols \cap df_clean.cols)

\* Two rows of decile 10 (rates 4.0 and 0, weights 200 and 50) aggregated
\* into one row with mean 2.0, lower bound 1.5 and weight 250.
C10_Witness ==
    /\ pc = "direct"
    /\ {"txStandDirModBB", "poids1"} \subseteq direct["by_income"].cols
    /\ \E j \in 1..Len(direct["by_income"].rows) :
          /\ direct["by_income"].rows[j].c["income_decile"] = Num(10, 1)
          /\ direct["by_income"].rows[j].c["txStandDir"] = Num(2, 1)
          /\ direct["by_income"].rows[j].c["txStandDirModBB"] = Num(3, 2)
          /\ direct["by_income"].rows[j].c["poids1"] = Num(250, 1)

----------------------------------------------------------------------------
(* Order independence of the aggregation *)

\* The permutations of 1..n.
Perms(n) == {p \in [1..n -> 1..n] : \A i, j \in 1..n : p[i] = p[j] => i = j}

\* The table with its rows (and their index labels) in the order p.
Permute(df, p) ==
    [cols |-> df.cols, rows |-> [i \in 1..Len(df.rows) |-> df.rows[p[i]]]]

----------------------------------------------------------------------------
(* Properties of get_top_diseases *)

\* The rows of df of rate type by, and those of them of one disease.
RowsOfType(df, by) ==
    {i \in 1..Len(df.rows) : df.rows[i].c["type"] = Str(by)}

RowsOfDisease(df, by, label) ==
    {i \in RowsOfType(df, by) : df.rows[i].c["varTauxLib"] = Str(label)}

LabelsOfType(df, by) ==
    {df.rows[i].c["varTauxLib"].s : i \in RowsOfType(df, by)}

\* The mean rate over the rows S is defined and smaller than that over T.
MeanLess(df, S, T) ==
    LET P == Present(df, "txStandDir", S)
        Q == Present(df, "txStandDir", T)
    IN /\ P # {}
       /\ Q # {}
       /\ SumTenths(df, "txStandDir", P) * Cardinality(Q)
              < SumTenths(df, "txStandDir", Q) * Cardinality(P)

\* C12: get_top_diseases(df, n, by) returns min(n, number of distinct
\* varTauxLib values among the rows of type by) labels, each once, in order
\* of non-increasing mean txStandDir, and the empty list when the table is
\* empty or has no row of that type.
C12_TopN ==
    pc = "top" =>
        LET labels == LabelsOfType(df_clean, top.by)
            k == Cardinality(labels)
        IN /\ Len(top.out) = IF top.n < k THEN top.n ELSE k
           /\ \A i \in 1..Len(top.out) : top.out[i] \in labels
           /\ \A i, j \in 1..Len(top.out) : top.out[i] = top.out[j] => i = j
           /\ \A i, j \in 1..Len(top.out) :
                 i < j => ~MeanLess(df_clean,
                                    RowsOfDisease(df_clean, top.by, top.out[i]),
                                    RowsOfDisease(df_clean, top.by, top.out[j]))
           /\ \A label \in labels, i \in 1..Len(top.out) :
                 label \notin {top.out[j] : j \in 1..Len(top.out)} =>
                     ~MeanLess(df_clean,
                               RowsOfDisease(df_clean, top.by, top.out[i]),
                               RowsOfDisease(df_clean, top.by, label))
           /\ (empty(df_clean) \/ labels = {}) => top.out = <<>>

\* Two diseases of different mean rates, asked for with n = 1 and n >= 2:
\* the one of the higher mean comes first, and alone when n = 1.
C12_Witness ==
    /\ pc = "top"
    /\ Cardinality(LabelsOfType(df_clean, top.by)) = 2
    /\ top.out \in {<<"Asthma">>, <<"Diabetes">>, <<"Asthma", "Diabetes">>,
                    <<"Diabetes", "Asthma">>}
    /\ \E a, b \in LabelsOfType(df_clean, top.by) :
          /\ MeanLess(df_clean, RowsOfDisease(df_clean, top.by, a),
                      RowsOfDisease(df_clean, top.by, b))
          /\ top.out[1] = b
          /\ top.n = 1

----------------------------------------------------------------------------
(* Properties of the loaders *)

EmptyStructures == [df_raw |-> EmptyDF, df_clean |-> EmptyDF, tables |-> <<>>,
                    quality_report |-> <<>>]

\* C14: the loader does not raise; for an absent or unparsable file it
\* returns an empty table, and load_and_prepare_data then returns an empty
\* raw table, an empty clean table, no tables and no quality report.
C14_LoaderNeverRaises ==
    /\ pc = "loaded" =>
          /\ loaded.raised = ""
          /\ data_file.state # "ok" => empty(loaded.df)
    /\ pc = "prepared" /\ data_file.state # "ok" =>
          cache.value = EmptyStructures

\* The part on load_and_prepare_data alone.
C14_EmptyStructures ==
    pc = "prepared" /\ data_file.state # "ok" => cache.value = EmptyStructures

----------------------------------------------------------------------------
(* Properties of the session *)

\* C15: a run of main in which the cleaned table is empty (no file, or all
\* rows dropped) reports the failure and stops before the sidebar controls
\* and before any section; a section is rendered only with a cleaned table
\* that is not empty, and receives the six tables.
C15_HaltOnEmpty ==
    runs > 0 =>
        /\ empty(df_clean) => view.shown = "failed" /\ ~view.sidebar
        /\ view.shown \in AppSections =>
              /\ ~empty(df_clean)
              /\ view.sidebar
              /\ DOMAIN tables.t = TableNames

\* A file whose rows are all dropped by the cleaning: the raw table is not
\* empty, the cleaned table is, and main stops on the failure report.
C15_Witness ==
    /\ runs > 0
    /\ ~empty(df_raw)
    /\ empty(df_clean)
    /\ df_clean.cols # {}
    /\ view.shown = "failed"

\* The step is a script run started by the cache-clear button.
ClearStep == runs' # runs /\ view'.event = "clear"

\* C16: the body of load_and_prepare_data runs at most once between two
\* cache clears; a step that is no cache clear leaves a stored entry as it
\* is, and every script run in between sees the cleaned table of the entry,
\* whatever has become of the file.
C16_MemoizedUntilCleared ==
    [][/\ loads' <= 1
       /\ (cache.valid /\ ~ClearStep) =>
             /\ cache' = cache
             /\ loads' = loads
             /\ runs' # runs => df_clean' = cache.value.df_clean]_vars

\* The file was removed after the first run; the later run still shows the
\* table loaded then.
C16_Witness ==
    /\ runs >= 2
    /\ loads = 1
    /\ cache.valid
    /\ data_file.state = "absent"
    /\ ~empty(df_clean)
    /\ view.shown \in AppSections

\* C17 as stated: a script run caused by a filter change executes
\* make_tables again.
C17_FilterChangeRebuilds ==
    [][(runs' # runs /\ view'.event = "filter") => builds' = builds + 1]_vars

\* C17 amended: a script run caused by a filter change does not execute
\* make_tables; the section receives the memoized tables, which are those
\* make_tables built from the cleaned table without filters.  make_tables
\* runs only in a script run that finds no stored entry.
C17_FilterChangeReusesTables ==
    [][/\ (runs' # runs /\ view'.event = "filter") =>
             /\ builds' = builds
             /\ tables' = tables
             /\ tables' = make_tables(df_clean', NoFilters)
             /\ view'.shown \in AppSections
       /\ builds' # builds => (~cache.valid \/ ClearStep)]_vars

\* A filter change after the tables were built once.
C17_Witness ==
    /\ view.event = "filter"
    /\ runs >= 2
    /\ builds = 1
    /\ view.shown = "Overview"
    /\ widgets.rate_type = "incidence"


----------------------------------------------------------------------------
(* utils/prep.py by object reference: which DataFrame each statement writes *)

\* The objects of a call are a sequence h of tables; a reference is an index
\* into it, and [h, ref] is a variable of the function bound to an object.
\* An operation that returns a new DataFrame (df[mask], dropna, groupby,
\* sort_values, pd.DataFrame()) allocates.
mem_alloc(h, t) == [h |-> Append(h, t), ref |-> Len(h) + 1]

\* df.copy(): a new object with the same content.
mem_copy(h, ref) == mem_alloc(h, h[ref])

\* df[col] = ... and rename(..., inplace=True): the object itself changes.
mem_setitem(h, ref, t) == [h EXCEPT ![ref] = t]

\* df_clean[col] = pd.to_numeric(df_clean[col], errors='coerce')
clean_numeric_mem(m) ==
    [h |-> mem_setitem(m.h, m.ref, MapCols(m.h[m.ref], numeric_cols, to_numeric)),
     ref |-> m.ref]

\* df_clean = df_clean.dropna(subset=[col]), once a critical column is there.
clean_dropna_mem(m) ==
    IF critical_cols \cap m.h[m.ref].cols = {} THEN m
    ELSE mem_alloc(m.h, dropna_critical(m.h[m.ref]))

\* df_clean['year'] = pd.to_numeric(df_clean['annee'], errors='coerce')
clean_year_mem(m) ==
    IF "annee" \in m.h[m.ref].cols
    THEN [h |-> mem_setitem(m.h, m.ref,
                            AddCol(m.h[m.ref], "year", "annee", to_numeric)),
          ref |-> m.ref]
    ELSE m

\* df_clean[col] = df_clean[col].astype(str)
clean_strings_mem(m) ==
    [h |-> mem_setitem(m.h, m.ref, MapCols(m.h[m.ref], string_cols, astype_str)),
     ref |-> m.ref]

\* clean_data with df_clean = df in place of df.copy().
clean_data_mem_no_copy(h, df) ==
    clean_strings_mem(clean_year_mem(clean_dropna_mem(clean_numeric_mem(
        [h |-> h, ref |-> df]))))

\* clean_data(df): the column assignments write the copy of line 22, and the
\* table dropna returned once a critical column is there.
clean_data_mem(h, df) ==
    clean_strings_mem(clean_year_mem(clean_dropna_mem(clean_numeric_mem(
        mem_copy(h, df)))))

\* df[mask].copy(): the selection is a new object and so is its copy.
mem_select_copy(sel) == mem_copy(sel.h, sel.ref)

select_groupage_mem(h, df, groupvars) ==
    mem_select_copy(mem_alloc(h, select_groupage(h[df], groupvars)))

\* groupby(keys).agg(agg_dict).reset_index() of the object m is bound to.
groupby_mem(m, keycols, agg) ==
    mem_alloc(m.h, groupby_agg(m.h[m.ref], keycols, agg))

sort_values_mem(m, col) == mem_alloc(m.h, sort_values(m.h[m.ref], col))

\* income_df['income_decile'] = ...; income_df = income_df[...notna()]
income_decile_mem(m) ==
    [h |-> mem_setitem(m.h, m.ref,
                       AddCol(m.h[m.ref], "income_decile", "valGroupage",
                              to_numeric)),
     ref |-> m.ref]

income_kept_mem(m) ==
    mem_alloc(m.h, FilterRows(m.h[m.ref],
                              LAMBDA r : notna(r.c["income_decile"])))

income_agg_mem(m) ==
    sort_values_mem(groupby_mem(m, <<"income_decile", "varTauxLib", "type">>,
                                agg_dict_ci(m.h[m.ref])),
                    "income_decile")

income_table_mem(income_df) ==
    IF empty(income_df.h[income_df.ref]) THEN mem_alloc(income_df.h, EmptyDF)
    ELSE income_agg_mem(income_kept_mem(income_decile_mem(income_df)))

\* create_income_table(df): income_decile is written into the copy of the
\* selection.
create_income_table_mem(h, df) ==
    income_table_mem(select_groupage_mem(h, df,
                                         {"FISC_NIVVIEM_E2015_S_moy_10"}))

\* agg_df.rename(columns={'valGroupage': new}, inplace=True)
rename_mem(agg_df, new) ==
    [h |-> mem_setitem(agg_df.h, agg_df.ref,
                       RenameCol(agg_df.h[agg_df.ref], "valGroupage", new)),
     ref |-> agg_df.ref]

\* The region, education and occupation builders from their selection on:
\* the aggregate is renamed in place.
renamed_table_mem(sel, new) ==
    IF empty(sel.h[sel.ref]) THEN mem_alloc(sel.h, EmptyDF)
    ELSE rename_mem(groupby_mem(sel, <<"valGroupage", "varTauxLib", "type">>,
                                agg_dict_ci(sel.h[sel.ref])),
                    new)

create_region_table_mem(h, df) ==
    renamed_table_mem(select_groupage_mem(h, df, {"FISC_REG_S"}),
                      "region_code")

create_education_table_mem(h, df) ==
    renamed_table_mem(select_groupage_mem(h, df, {"EAR_DIPLR_S"}),
                      "education_level")

create_csp_table_mem(h, df) ==
    renamed_table_mem(select_groupage_mem(h, df, {"EAR_GS_S"}), "csp_group")

demographics_table_mem(demo_df) ==
    IF empty(demo_df.h[demo_df.ref]) THEN mem_alloc(demo_df.h, EmptyDF)
    ELSE groupby_mem(demo_df,
             <<"varGroupage", "valGroupage", "varTauxLib", "type">>,
             agg_dict_plain(demo_df.h[demo_df.ref]))

create_demographics_table_mem(h, df) ==
    demographics_table_mem(select_groupage_mem(h, df, {"classeAge10", "SEXE"}))

timeseries_table_mem(ts_df) ==
    IF empty(ts_df.h[ts_df.ref]) THEN mem_alloc(ts_df.h, EmptyDF)
    ELSE sort_values_mem(groupby_mem(ts_df, <<"year", "varTauxLib", "type">>,
                                     agg_dict_plain(ts_df.h[ts_df.ref])),
                         "year")

create_timeseries_table_mem(h, df) ==
    IF "year" \notin h[df].cols THEN mem_alloc(h, EmptyDF)
    ELSE timeseries_table_mem(mem_select_copy(
             mem_alloc(h, FilterRows(h[df], LAMBDA r : notna(r.c["year"])))))

\* tables[name] = create_..._table(df): the dict gains what the call
\* returned, and the objects are those the call left.
tables_setitem(acc, name, returned) ==
    [h |-> returned.h, t |-> (name :> returned.h[returned.ref]) @@ acc.t]

call_builder_mem(acc, name, df) ==
    tables_setitem(acc, name,
        CASE name = "by_income" -> create_income_table_mem(acc.h, df)
          [] name = "by_region" -> create_region_table_mem(acc.h, df)
          [] name = "by_education" -> create_education_table_mem(acc.h, df)
          [] name = "by_csp" -> create_csp_table_mem(acc.h, df)
          [] name = "by_demographics" -> create_demographics_table_mem(acc.h, df)
          [] OTHER -> create_timeseries_table_mem(acc.h, df))

\* The six builders called one after the other on the object df, as
\* make_tables calls them; t holds the content of what each returned.
builders_mem(h, df) ==
    call_builder_mem(
      call_builder_mem(
        call_builder_mem(
          call_builder_mem(
            call_builder_mem(
              call_builder_mem([h |-> h, t |-> <<>>], "by_income", df),
              "by_region", df),
            "by_education", df),
          "by_csp", df),
        "by_demographics", df),
      "timeseries", df)

\* df_filtered = df_filtered[mask]: a new object when a filter applies.
filtered_mem(c, f) ==
    IF truthy(f) /\ (get_regions(f) \/ get_disease(f) \/ get_type(f))
    THEN mem_alloc(c.h, apply_filters(c.h[c.ref], f).df)
    ELSE c

make_tables_returned(b) == [h |-> b.h, raised |-> "", t |-> b.t]

make_tables_on_copy(c, f, df_filtered) ==
    IF apply_filters(c.h[c.ref], f).raised # ""
    THEN [h |-> c.h, raised |-> apply_filters(c.h[c.ref], f).raised,
          t |-> <<>>]
    ELSE make_tables_returned(builders_mem(df_filtered.h, df_filtered.ref))

make_tables_filtered(c, f) == make_tables_on_copy(c, f, filtered_mem(c, f))

\* make_tables(df, filters): the filters select from the copy of line 87.
make_tables_mem(h, df, f) == make_tables_filtered(mem_copy(h, df), f)

\* calculate_inequality_ratio(df, ...): the selections are new objects and
\* nothing is assigned.
calculate_inequality_ratio_mem(h, df, disease, type_) ==
    [h |-> IF empty(h[df]) THEN h
           ELSE mem_alloc(h, FilterRows(h[df], LAMBDA r :
                    /\ EqStr(r.c["varTauxLib"], disease)
                    /\ EqStr(r.c["type"], type_))).h,
     value |-> calculate_inequality_ratio(h[df], disease, type_)]

\* get_top_diseases(df, n, by): df[df['type'] == by].copy(), then new
\* aggregates; nothing is assigned.
get_top_diseases_mem(h, df, n, by) ==
    [h |-> IF empty(h[df]) THEN h
           ELSE mem_select_copy(mem_alloc(h, FilterRows(h[df],
                    LAMBDA r : EqStr(r.c["type"], by)))).h,
     value |-> get_top_diseases(h[df], n, by)]

----------------------------------------------------------------------------
(* The calls of utils/prep.py, each on the one object its caller holds *)

InitMem ==
    /\ df_raw \in TablesOf(PipelinePool, MaxRows)
    /\ pc = "raw"
    /\ InitIdle

\* clean_data(df_raw): df_raw afterwards is the object that was passed.
CleanDataReturns(r) ==
    /\ df_raw' = r.h[1]
    /\ df_clean' = r.h[r.ref]

MemCleanData ==
    /\ pc = "raw"
    /\ CleanDataReturns(clean_data_mem(<<df_raw>>, 1))
    /\ pc' = "clean"
    /\ UNCHANGED <<df_clean2, direct, filters, tables, ratio_call,
                   ratio, kpi, cmp, sliders, age_in, age_out, top, session>>

BuildersReturn(r) ==
    /\ df_clean' = r.h[1]
    /\ direct' = r.t

MemCallBuilders ==
    /\ pc = "clean"
    /\ BuildersReturn(builders_mem(<<df_clean>>, 1))
    /\ pc' = "direct"
    /\ UNCHANGED <<df_raw, df_clean2, filters, tables, ratio_call,
                   ratio, kpi, cmp, sliders, age_in, age_out, top, session>>

MakeTablesReturns(r) ==
    /\ df_clean' = r.h[1]
    /\ tables' = [raised |-> r.raised, t |-> r.t]

MemMakeTables ==
    /\ pc = "clean"
    /\ \E f \in FilterSettings :
          /\ filters' = f
          /\ MakeTablesReturns(make_tables_mem(<<df_clean>>, 1, f))
    /\ pc' = "tables"
    /\ UNCHANGED <<df_raw, df_clean2, direct, ratio_call, ratio,
                   kpi, cmp, sliders, age_in, age_out, top, session>>

RatioReturns(name, r) ==
    /\ tables' = [tables EXCEPT !.t[name] = r.h[1]]
    /\ ratio' = r.value

MemRatio ==
    /\ AppTables
    /\ \E name \in {"by_income", "by_region"}, disease \in Diseases,
          type_ \in RateTypes :
          /\ ratio_call' = [table |-> name, disease |-> disease,
                            type |-> type_]
          /\ RatioReturns(name,
                 calculate_inequality_ratio_mem(<<tables.t[name]>>, 1,
                                                disease, type_))
    /\ pc' = "ratio"
    /\ UNCHANGED <<df_raw, df_clean, df_clean2, direct, filters, kpi,
                   cmp, sliders, age_in, age_out, top, session>>

TopDiseasesReturns(n, by, r) ==
    /\ df_clean' = r.h[1]
    /\ top' = [n |-> n, by |-> by, out |-> r.value]

MemTopDiseases ==
    /\ pc = "clean"
    /\ \E n \in 0..MaxTopN, by \in RateTypes :
          TopDiseasesReturns(n, by, get_top_diseases_mem(<<df_clean>>, 1, n, by))
    /\ pc' = "top"
    /\ UNCHANGED <<df_raw, df_clean2, direct, filters, tables,
                   ratio_call, ratio, kpi, cmp, sliders, age_in, age_out, session>>

NextMem ==
    \/ MemCleanData
    \/ MemCallBuilders
    \/ MemMakeTables
    \/ MemRatio
    \/ MemTopDiseases

SpecMem == InitMem /\ [][NextMem]_vars

----------------------------------------------------------------------------
(* Properties of the calls by reference *)

\* The calls by reference return what the calls by value return.
MemAgreesWithValues ==
    /\ pc = "clean" => df_clean = clean_data(df_raw)
    /\ pc = "direct" =>
          /\ direct["by_income"] = create_income_table(df_clean)
          /\ direct["by_region"] = create_region_table(df_clean)
          /\ direct["by_education"] = create_education_table(df_clean)
          /\ direct["by_csp"] = create_csp_table(df_clean)
          /\ direct["by_demographics"] = create_demographics_table(df_clean)
          /\ direct["timeseries"] = create_timeseries_table(df_clean)
    /\ pc = "tables" => tables = make_tables(df_clean, filters)

\* C18: clean_data leaves the table it is passed as it was, and so do
\* make_tables, every create_*_table, calculate_inequality_ratio and
\* get_top_diseases, whatever the filters: after each call the object the
\* caller passed holds the content it held before.
C18_InputUnchanged ==
    [][/\ df_raw' = df_raw
       /\ pc # "raw" => df_clean' = df_clean
       /\ pc = "tables" => tables' = tables]_vars

\* clean_data and create_income_table have both written a column, into
\* their own copies: the cleaned table differs from the raw one and the
\* income table has the column income_decile the cleaned table has not.
C18_Witness ==
    /\ pc = "direct"
    /\ df_clean # df_raw
    /\ \E i \in DOMAIN df_raw.rows :
          df_raw.rows[i].c["txStandDir"].k = "str"
    /\ "income_decile" \in direct["by_income"].cols
    /\ "income_decile" \notin df_clean.cols


----------------------------------------------------------------------------
(* Properties of the rules of _age_to_bucket_label *)

Breakpoints == {18, 25, 35, 45, 55, 65, 75}

BucketFrom ==
    (18 :> "18-24") @@ (25 :> "25-34") @@ (35 :> "35-44") @@ (45 :> "45-54")
    @@ (55 :> "55-64") @@ (65 :> "65-74") @@ (75 :> GEQ \o "75")

\* The bucket of a bound: below 18, or from the greatest breakpoint not
\* above it.
BucketOfBound(lo) ==
    IF lo < 18 THEN "<18"
    ELSE BucketFrom[CHOOSE b \in Breakpoints :
                        /\ b <= lo
                        /\ \A c \in Breakpoints : c <= lo => c <= b]

\* The input as the rules see it, and whether it is one of the known tokens.
Seen(code) == upper(strip(Chars(code)))

IsToken(code) ==
    \E t \in {"TOTAL", "T", "Y_LT18", "LT18", "<18", "Y_GE75", "GE75", ">=75",
              GEQ \o "75"} : Seen(code) = Chars(t)

\* The input is decided by the range rule.
ByRange(code) == ~IsToken(code) /\ match_range(Seen(code)).m

\* C19: an input matched by the range rule "low-high" gets the bucket of its
\* lower bound alone (breakpoints 18, 25, 35, 45, 55, 65, 75), whatever the
\* upper bound is.
C19_RangeByLowerBound ==
    (pc = "age_done" /\ ByRange(age_in)) =>
        age_out = BucketOfBound(match_range(Seen(age_in)).lo)

\* The same for the ranges whose lower bound is not above the upper one.
C19_OrderedRangeByLowerBound ==
    (pc = "age_done" /\ ByRange(age_in)
     /\ match_range(Seen(age_in)).lo <= match_range(Seen(age_in)).hi) =>
        age_out = BucketOfBound(match_range(Seen(age_in)).lo)


\* The bucket of each known token.
TokenBucket(code) ==
    LET Is(tokens) == \E t \in tokens : Seen(code) = Chars(t)
    IN IF Is({"TOTAL", "T"}) THEN "Total"
       ELSE IF Is({"Y_LT18", "LT18", "<18"}) THEN "<18"
       ELSE GEQ \o "75"

\* The first of the five rules, in their order, that matches the input.
FirstRule(code) ==
    IF IsToken(code) THEN "token"
    ELSE IF match_range(Seen(code)).m THEN "range"
    ELSE IF match_ge(Seen(code)).m THEN "threshold"
    ELSE IF first_number(Seen(code)).m THEN "number"
    ELSE "default"

\* What each rule gives when it is the one that decides; the range rule
\* answers "<18" for an upper bound below 18 before it looks at the lower one.
RuleResult(rule, code) ==
    CASE rule = "token" -> TokenBucket(code)
      [] rule = "range" ->
            IF match_range(Seen(code)).hi < 18 THEN "<18"
            ELSE BucketOfBound(match_range(Seen(code)).lo)
      [] rule = "threshold" -> BucketOfBound(match_ge(Seen(code)).lo)
      [] rule = "number" -> BucketOfBound(first_number(Seen(code)).lo)
      [] OTHER -> "Total"

\* C20: the rules are tried in the order exact token, range, threshold,
\* embedded number, default, and the first that matches decides alone; a
\* known token (after trimming and upper-casing) gets its own bucket even
\* where a later rule would give another: "Y_GE75" and the sign form of 75 and
\* over give the bucket of 75 and over, "<18", "LT18" and "Y_LT18" give <18
\* and not 18-24, "T" and "TOTAL" give Total.
C20_FirstRuleDecides ==
    pc = "age_done" =>
        /\ age_out = RuleResult(FirstRule(age_in), age_in)
        /\ IsToken(age_in) => age_out = TokenBucket(age_in)

\* "Y_LT18" is a known token and holds the number 18: the token rule gives
\* <18 where the embedded-number rule would give 18-24.
C20_Witness ==
    /\ pc = "age_done"
    /\ age_in = "Y_LT18"
    /\ FirstRule(age_in) = "token"
    /\ RuleResult("number", age_in) = "18-24"
    /\ age_out = "<18"


\* The input is left to the last two rules: no token, range or threshold.
ByLastRules(code) ==
    /\ ~IsToken(code)
    /\ ~match_range(Seen(code)).m
    /\ ~match_ge(Seen(code)).m

\* The positions of the digits of the input as the rules see it, and those
\* where a two-digit number starts.
DigitAt(code) == {i \in 1..Len(Seen(code)) : Seen(code)[i] \in DigitChars}

PairAt(code) == {i \in DigitAt(code) : i + 1 \in DigitAt(code)}

TwoDigitsFrom(code, i) ==
    10 * DigitVal(Seen(code)[i]) + DigitVal(Seen(code)[i + 1])

\* The first embedded number of one or two digits: the first digit, with
\* the digit after it when there is one.
FirstEmbedded(code) ==
    LET i == CHOOSE k \in DigitAt(code) : \A j \in DigitAt(code) : k <= j
    IN IF i + 1 \in DigitAt(code) THEN TwoDigitsFrom(code, i)
       ELSE DigitVal(Seen(code)[i])

\* C21: (d) an input that matches no earlier rule and holds a two-digit
\* number is bucketed by that number with the same breakpoints; (e) an input
\* that is no token, no range, no threshold and holds no two-digit number
\* gets the default bucket "Total".
C21_TwoDigitOrDefault ==
    (pc = "age_done" /\ ByLastRules(age_in)) =>
        IF PairAt(age_in) # {}
        THEN age_out = BucketOfBound(TwoDigitsFrom(age_in,
                          CHOOSE k \in PairAt(age_in) :
                              \A j \in PairAt(age_in) : k <= j))
        ELSE age_out = "Total"

\* C21 as the code has it: (d) an input that matches no earlier rule and
\* holds a digit is bucketed by its first embedded number of one or two
\* digits; (e) an input that matches no earlier rule and holds no digit gets
\* the default bucket "Total".
C21_NumberOrDefault ==
    (pc = "age_done" /\ ByLastRules(age_in)) =>
        IF DigitAt(age_in) # {}
        THEN age_out = BucketOfBound(FirstEmbedded(age_in))
        ELSE age_out = "Total"

\* "Y7" holds one digit only and is bucketed by it.
C21_Witness ==
    /\ pc = "age_done"
    /\ age_in = "Y7"
    /\ ByLastRules(age_in)
    /\ PairAt(age_in) = {}
    /\ age_out = "<18"


----------------------------------------------------------------------------
(* Cleaning and building on tables with unusual grouping values *)

\* Rows whose grouping value is a decile outside 1..10, a fraction, the
\* empty string or missing, rows whose identifying field is the empty
\* string, and regions out of order.
EdgeRow(gvar, gval, lib, ty, rate, annee) ==
    RawRow(gvar, gval, lib, ty, rate, Str("3.0"), Str("5.0"), Str("10"), annee,
           Str("FISC_REG_S"), Str("11"))

EdgePool ==
    {EdgeRow(Str(INC), Str("1"), Str("Diabetes"), Str("prevalence"),
             Str("12.0"), Str("2021")),
     EdgeRow(Str(INC), Str("11"), Str("Diabetes"), Str("prevalence"),
             Str("4.0"), Str("2020")),
     EdgeRow(Str(INC), Str("2.5"), Str("Diabetes"), Str("prevalence"),
             Str("6.0"), Str("2020")),
     EdgeRow(Str(INC), Str(""), Str("Diabetes"), Str("prevalence"),
             Str("5.0"), Str("2020")),
     EdgeRow(Str("FISC_REG_S"), Str(""), Str("Asthma"), Str("prevalence"),
             Str("7.0"), Str("2020")),
     EdgeRow(Str("FISC_REG_S"), NA, Str("Asthma"), Str("prevalence"),
             Str("7.5"), Str("2020")),
     EdgeRow(Str("FISC_REG_S"), Str("24"), Str("Asthma"), Str("prevalence"),
             Str("8.0"), Str("2021")),
     EdgeRow(Str("FISC_REG_S"), Str("11"), Str("Asthma"), Str("prevalence"),
             Str("9.0"), Str("2020")),
     EdgeRow(Str("SEXE"), Str("F"), Str(""), Str("prevalence"),
             Str("3.0"), Str("2020")),
     EdgeRow(Str("EAR_DIPLR_S"), Str("BAC"), Str("Asthma"), Str(""),
             Str("2.0"), NA)}

InitBuild ==
    /\ df_raw \in TablesOf(EdgePool, MaxRows)
    /\ pc = "raw"
    /\ InitIdle

NextBuild ==
    \/ CleanData
    \/ CallBuilders
    \/ MakeTables

SpecBuild == InitBuild /\ [][NextBuild]_vars

----------------------------------------------------------------------------
(* Properties of the tables on unusual grouping values *)

\* C22: every row of the table create_income_table returns has an
\* income_decile that is an integer in 1..10; the rows whose grouping value
\* is no such decile are dropped before aggregation.
C22_DecileInRange ==
    pc = "direct" =>
        \A i \in 1..Len(direct["by_income"].rows) :
            LET v == direct["by_income"].rows[i].c["income_decile"]
            IN v.k = "num" /\ v.d = 1 /\ v.n >= 1 /\ v.n <= 10


\* What the cast does drop: the rows whose grouping value is no number.
C22_DecileIsNumber ==
    pc = "direct" =>
        \A i \in 1..Len(direct["by_income"].rows) :
            direct["by_income"].rows[i].c["income_decile"].k = "num"


\* The column each sorted table is ordered by.
SortColumn ==
    ("by_income" :> "income_decile") @@ ("by_region" :> "region_code")
    @@ ("by_education" :> "education_level") @@ ("by_csp" :> "csp_group")
    @@ ("timeseries" :> "year")

\* No row of t has a smaller value in col than a row before it.
Ascending(t, col) ==
    \A i, j \in 1..Len(t.rows) :
        i < j => ~CellLess(t.rows[j].c[col], t.rows[i].c[col])

\* C23: every aggregate table is returned in ascending order of its
\* grouping value: the income table by income_decile (as a number), the
\* time series by year, the region, education and occupation tables by
\* their grouping value.
C23_SortedAscending ==
    pc = "direct" =>
        \A name \in DOMAIN SortColumn :
            Ascending(direct[name], SortColumn[name])

\* Region 24 comes before region 11 in the file and after it in the table.
C23_Witness ==
    /\ pc = "direct"
    /\ Len(df_raw.rows) = 2
    /\ df_raw.rows[1].c["valGroupage"] = Str("24")
    /\ df_raw.rows[2].c["valGroupage"] = Str("11")
    /\ Len(direct["by_region"].rows) = 2
    /\ direct["by_region"].rows[1].c["region_code"] = Str("11")
    /\ direct["by_region"].rows[2].c["region_code"] = Str("24")


\* The table with the missing marker in place of every empty string of the
\* columns of colset.
EmptyToMissing(df, colset) ==
    [cols |-> df.cols,
     rows |-> [i \in DOMAIN df.rows |->
                 [idx |-> df.rows[i].idx,
                  c |-> [col \in df.cols |->
                           IF col \in colset /\ df.rows[i].c[col] = Str("")
                           THEN NA ELSE df.rows[i].c[col]]]]]

RowLabels(df) == {df.rows[i].idx : i \in 1..Len(df.rows)}

\* The six tables of a cleaned table.
BuildAll(df) ==
    [name \in TableNames |->
        CASE name = "by_income" -> create_income_table(df)
          [] name = "by_region" -> create_region_table(df)
          [] name = "by_education" -> create_education_table(df)
          [] name = "by_csp" -> create_csp_table(df)
          [] name = "by_demographics" -> create_demographics_table(df)
          [] OTHER -> create_timeseries_table(df)]

\* C24: an empty string in a code column is treated exactly like a missing
\* value: clean_data drops the rows it would drop were the empty varTauxLib
\* and type missing, and the builders return the tables they would return
\* of the same rows they would return were the empty valGroupage missing.
C24_EmptyLikeMissing ==
    /\ pc = "clean" =>
          RowLabels(df_clean)
            = RowLabels(clean_data(EmptyToMissing(df_raw, critical_cols)))
    /\ pc = "direct" =>
          \A name \in TableNames :
              direct[name].rows
                = BuildAll(clean_data(EmptyToMissing(df_raw, {"valGroupage"})))[name].rows

\* The second half alone, on tables without an empty identifying field.
C24_EmptyGroupLikeMissing ==
    pc = "direct" =>
        \A name \in TableNames :
            direct[name].rows
              = BuildAll(clean_data(EmptyToMissing(df_raw, {"valGroupage"})))[name].rows


----------------------------------------------------------------------------
(* Ties in get_top_diseases *)

\* Two labels of type by whose mean rates are defined and equal.
Tied(df, by, a, b) ==
    /\ a # b
    /\ Present(df, "txStandDir", RowsOfDisease(df, by, a)) # {}
    /\ Present(df, "txStandDir", RowsOfDisease(df, by, b)) # {}
    /\ ~MeanLess(df, RowsOfDisease(df, by, a), RowsOfDisease(df, by, b))
    /\ ~MeanLess(df, RowsOfDisease(df, by, b), RowsOfDisease(df, by, a))

\* Label a has a row before every row of label b.
FirstRowEarlier(df, by, a, b) ==
    \E i \in RowsOfDisease(df, by, a) :
        \A j \in RowsOfDisease(df, by, b) : i < j

\* If b is listed then a is listed before it.
ListedBefore(out, a, b) ==
    \A j \in 1..Len(out) : out[j] = b => \E i \in 1..(j - 1) : out[i] = a

----------------------------------------------------------------------------
(* Properties of the filters of make_tables *)

\* A criterion is given: the filters are not None, the key is there and its
\* value is not empty.
Given(f, key) ==
    /\ ~f.none
    /\ key \in f.keys
    /\ CASE key = "regions" -> f.regions # {}
         [] key = "disease" -> f.disease # ""
         [] OTHER -> f.type # ""

\* The row meets every criterion that is given.
MeetsAll(df, r, f) ==
    /\ Given(f, "regions") =>
          /\ {"varPartition", "valPartition"} \subseteq df.cols
          /\ r.c["varPartition"] = Str("FISC_REG_S")
          /\ \E g \in f.regions : r.c["valPartition"] = Str(g)
    /\ Given(f, "disease") => r.c["varTauxLib"] = Str(f.disease)
    /\ Given(f, "type") => r.c["type"] = Str(f.type)

Filtered(df, f) ==
    [df EXCEPT !.rows = SelectSeq(@, LAMBDA r : MeetsAll(df, r, f))]

\* C26: make_tables keeps the rows that meet all the criteria given
\* (regions: varPartition == 'FISC_REG_S' and valPartition in the list;
\* disease: that varTauxLib; type: that type) and builds every table from
\* them; a criterion that is absent or empty restricts nothing, so that
\* filters None, {} and {'regions': []} give the same tables.
C26_ConjunctiveFilters ==
    pc = "tables" =>
        /\ tables.raised = ""
        /\ tables.t = BuildAll(Filtered(df_clean, filters))
        /\ (\A key \in {"regions", "disease", "type"} : ~Given(filters, key))
              => tables.t = BuildAll(df_clean)

\* The same of the calls that return.
C26_FiltersWhenReturned ==
    (pc = "tables" /\ tables.raised = "") =>
        /\ tables.t = BuildAll(Filtered(df_clean, filters))
        /\ (\A key \in {"regions", "disease", "type"} : ~Given(filters, key))
              => tables.t = BuildAll(df_clean)


----------------------------------------------------------------------------
(* A memoized failure *)

\* The stored result of load_and_prepare_data is that of an empty load.
FailureMemoized == cache.valid /\ empty(cache.value.df_clean)

\* C27: the cache-clear button is in the Data Quality section only, and the
\* section is rendered only after a load that is not empty; so once the
\* result of an empty load is memoized, no interaction in the application
\* clears the cache, the loader does not run again, and every later script
\* run ends in the failure halt.
C27_FailureIsPermanent ==
    [][FailureMemoized =>
          /\ view.shown # "Data Quality"
          /\ ~ClearStep
          /\ cache' = cache
          /\ loads' = loads
          /\ runs' # runs => (view'.shown = "failed" /\ ~view'.sidebar)]_vars

\* A failure is memoized, a readable file of data has taken the place of the
\* missing one, and the page, opened again, fails again.
C27_Witness ==
    /\ FailureMemoized
    /\ runs >= 2
    /\ data_file.state = "ok"
    /\ ~empty(load_and_prepare_data(data_file).df_clean)
    /\ view.shown = "failed"
    /\ loads = 1

----------------------------------------------------------------------------
(* The sliders of the Deep Dives section *)

\* The slider's default lies between its bounds.
WithinBounds(sl) == sl.min_value <= sl.value /\ sl.value <= sl.max_value

\* C28: every slider a Deep Dives render creates has min <= default <= max,
\* whatever the length of the table of the comparison mode and of the list
\* of ratios.
C28_SliderBounds ==
    pc = "sliders" => \A i \in 1..Len(sliders) : WithinBounds(sliders[i])

\* The render on a table of one or two groups: the 'Show top N groups'
\* slider is created with a maximum below its minimum and its default.
C28_ShortTable ==
    /\ pc = "sliders"
    /\ ~empty(tables.t[ratio_call.table])
    /\ sliders[1].label = "Show top N groups"
    /\ sliders[1].max_value = Len(tables.t[ratio_call.table].rows)
    /\ sliders[1].raised = "StreamlitAPIException"

----------------------------------------------------------------------------
(* The side-by-side comparison table of the Deep Dives section *)

\* The selected diseases that have a decile-1 and a decile-10 row of the
\* selected rate type in the income table, in the order of the selection.
WithBothDeciles(by_income, selected, rate_type) ==
    SelectSeq(selected, LAMBDA disease :
        /\ DecileRows(by_income, disease, rate_type, 1) # {}
        /\ DecileRows(by_income, disease, rate_type, 10) # {})

\* C29: the comparison table never fails on a missing rate column, and it
\* holds one row for each selected disease that has both decile 1 and
\* decile 10 in the income table.
C29_ComparisonReadsRateColumn ==
    pc = "cmp" =>
        /\ cmp.raised = ""
        /\ [i \in 1..Len(cmp.rows) |-> cmp.rows[i].disease]
               = WithBothDeciles(tables.t["by_income"], ratio_call.selected,
                                 ratio_call.type)

\* A selected disease has income rows of the rate type, and the lookup of
\* its rates fails.
C29_LookupFails ==
    /\ pc = "cmp"
    /\ \E i \in 1..Len(ratio_call.selected) :
          \E j \in 1..Len(tables.t["by_income"].rows) :
              LET r == tables.t["by_income"].rows[j]
              IN /\ EqStr(r.c["varTauxLib"], ratio_call.selected[i])
                 /\ EqStr(r.c["type"], ratio_call.type)
    /\ "txStandDir" \in tables.t["by_income"].cols
    /\ cmp.raised = "KeyError"

----------------------------------------------------------------------------
(* Missing values of the string columns after clean_data *)

grouping_cols == {"varGroupage", "valGroupage", "varPartition", "valPartition"}

\* The row of df_raw a row of the cleaned table comes from.
RawOf(r) ==
    df_raw.rows[CHOOSE j \in 1..Len(df_raw.rows) : df_raw.rows[j].idx = r.idx]

\* The grouping values of the rows of df for the grouping variables of
\* groupvars.
ValuesOf(df, groupvars) ==
    {df.rows[i].c["valGroupage"] : i \in
        {j \in 1..Len(df.rows) :
            \E v \in groupvars : EqStr(df.rows[j].c["varGroupage"], v)}}

\* The values of column col in table t (none in the empty table).
ColumnOf(t, col) ==
    IF col \in t.cols THEN {t.rows[i].c[col] : i \in 1..Len(t.rows)} ELSE {}

\* The grouping variables and the grouping column of the builders that group
\* on valGroupage as it is.
GroupedAsIs ==
    ("by_region" :> [vars |-> {"FISC_REG_S"}, col |-> "region_code"])
    @@ ("by_education" :> [vars |-> {"EAR_DIPLR_S"}, col |-> "education_level"])
    @@ ("by_csp" :> [vars |-> {"EAR_GS_S"}, col |-> "csp_group"])
    @@ ("by_demographics" :> [vars |-> {"classeAge10", "SEXE"},
                              col |-> "valGroupage"])

============================================================================
